---------------------------- MODULE Spec2Model ----------------------------
(***************************************************************************)
(* A model of the nearft NFT/coin automated market maker contract          *)
(* (src/nftamm/src): the bonding-curve kernels, the Pair (pool) entity,    *)
(* the account-deposit staging area, the LP share ledger and the multi-hop *)
(* swap router, as a state machine with one action per contract entry      *)
(* point or callback.                                                      *)
(*                                                                         *)
(* Numbers.  The contract works on u128 balances and U256 intermediates    *)
(* with WAD = 10^18 and MIN_PRICE = 10^24.  These do not fit the model     *)
(* checker's machine integers, so every amount is an exact natural number  *)
(* written as a little-endian sequence of base-10^4 limbs without leading  *)
(* zero limbs (zero is <<>>), with exact Add, Sub, Mul and Div on them.    *)
(* Equal numbers are equal sequences.                                      *)
(***************************************************************************)
EXTENDS Integers, Sequences, FiniteSets, TLC

(***************************************************************************)
(* Exact natural-number arithmetic (u128 / U256 values).                   *)
(***************************************************************************)
BASE == 10000

RECURSIVE Trim(_)
Trim(s) ==
    IF s = <<>> THEN s
    ELSE IF s[Len(s)] = 0 THEN Trim(SubSeq(s, 1, Len(s) - 1)) ELSE s

\* The number of a small machine integer.
RECURSIVE N(_)
N(i) == IF i = 0 THEN <<>> ELSE <<i % BASE>> \o N(i \div BASE)

\* The machine integer of a number known to be small (at most two limbs).
ToInt(a) ==
    IF Len(a) = 0 THEN 0 ELSE IF Len(a) = 1 THEN a[1] ELSE a[1] + BASE * a[2]

Limb(a, i) == IF i <= Len(a) THEN a[i] ELSE 0

RECURSIVE LtAt(_, _, _)
LtAt(a, b, i) ==
    IF i = 0 THEN FALSE
    ELSE IF a[i] # b[i] THEN a[i] < b[i] ELSE LtAt(a, b, i - 1)

Lt(a, b) == IF Len(a) # Len(b) THEN Len(a) < Len(b) ELSE LtAt(a, b, Len(a))

Le(a, b) == ~Lt(b, a)

RECURSIVE AddFrom(_, _, _, _)
AddFrom(a, b, i, c) ==
    IF i > Len(a) /\ i > Len(b) THEN (IF c = 0 THEN <<>> ELSE <<c>>)
    ELSE LET s == Limb(a, i) + Limb(b, i) + c
         IN  <<s % BASE>> \o AddFrom(a, b, i + 1, s \div BASE)

Add(a, b) == IF b = <<>> THEN a ELSE IF a = <<>> THEN b ELSE AddFrom(a, b, 1, 0)

RECURSIVE SubFrom(_, _, _, _)
SubFrom(a, b, i, br) ==
    IF i > Len(a) THEN <<>>
    ELSE LET d == a[i] - Limb(b, i) - br
         IN  <<IF d < 0 THEN d + BASE ELSE d>>
                 \o SubFrom(a, b, i + 1, IF d < 0 THEN 1 ELSE 0)

\* a - b for b <= a (the callers test for underflow first).
Sub(a, b) == IF b = <<>> THEN a ELSE Trim(SubFrom(a, b, 1, 0))

RECURSIVE MulSmallFrom(_, _, _, _)
MulSmallFrom(a, m, i, c) ==
    IF i > Len(a) THEN (IF c = 0 THEN <<>> ELSE <<c>>)
    ELSE LET p == a[i] * m + c
         IN  <<p % BASE>> \o MulSmallFrom(a, m, i + 1, p \div BASE)

MulSmall(a, m) == IF m = 0 THEN <<>> ELSE MulSmallFrom(a, m, 1, 0)

Shift(a, k) == IF a = <<>> THEN a ELSE [i \in 1..k |-> 0] \o a

RECURSIVE MulFrom(_, _, _)
MulFrom(a, b, j) ==
    IF j > Len(b) THEN <<>>
    ELSE Add(Shift(MulSmall(a, b[j]), j - 1), MulFrom(a, b, j + 1))

Mul(a, b) == IF a = <<>> \/ b = <<>> THEN <<>> ELSE MulFrom(a, b, 1)

RECURSIVE DivSmallFrom(_, _, _, _)
DivSmallFrom(a, m, i, r) ==
    IF i = 0 THEN <<>>
    ELSE LET cur == r * BASE + a[i]
         IN  DivSmallFrom(a, m, i - 1, cur % m) \o <<cur \div m>>

\* The largest q in lo..hi with b*q <= r.
RECURSIVE QDigit(_, _, _, _)
QDigit(r, b, lo, hi) ==
    IF lo >= hi THEN lo
    ELSE LET mid == (lo + hi + 1) \div 2
         IN  IF Le(MulSmall(b, mid), r) THEN QDigit(r, b, mid, hi)
             ELSE QDigit(r, b, lo, mid - 1)

RECURSIVE LongDiv(_, _, _, _)
LongDiv(a, b, i, r) ==
    IF i = 0 THEN <<>>
    ELSE LET cur  == Trim(<<a[i]>> \o r)
             lb   == Len(b)
             top2 == Limb(cur, lb + 1) * BASE + Limb(cur, lb)
             hi   == IF top2 \div b[lb] < BASE - 1 THEN top2 \div b[lb] ELSE BASE - 1
             lo   == top2 \div (b[lb] + 1)
             q    == IF Lt(cur, b) THEN 0 ELSE QDigit(cur, b, lo, hi)
         IN  LongDiv(a, b, i - 1, Sub(cur, MulSmall(b, q))) \o <<q>>

RECURSIVE LowZeros(_, _)
LowZeros(b, k) == IF k < Len(b) /\ b[k + 1] = 0 THEN LowZeros(b, k + 1) ELSE k

\* floor(a / b) for b > 0 (the callers test for a zero divisor first).
Div(a, b) ==
    LET k  == LowZeros(b, 0)
        a1 == IF k >= Len(a) THEN <<>> ELSE SubSeq(a, k + 1, Len(a))
        b1 == SubSeq(b, k + 1, Len(b))
    IN  IF a1 = <<>> THEN <<>>
        ELSE IF Len(b1) = 1 THEN Trim(DivSmallFrom(a1, b1[1], Len(a1), 0))
        ELSE Trim(LongDiv(a1, b1, Len(a1), <<>>))

Min(a, b) == IF Lt(a, b) THEN a ELSE b

(***************************************************************************)
(* Program constants and integer widths.                                   *)
(***************************************************************************)
WAD == <<0, 0, 0, 0, 100>>                \* 10^18
MIN_PRICE == <<0, 0, 0, 0, 0, 0, 1>>      \* 10^24
MAX_FEE == <<0, 0, 0, 0, 90>>             \* 9 * 10^17
U64_MOD == <<1616, 955, 737, 6744, 1844>> \* 2^64
U128_MAX == <<1455, 6821, 4317, 4607, 6337, 4634, 938, 6692, 2823, 340>>
U256_MAX == <<9935, 2963, 9131, 4007, 5758, 394, 564, 6564, 9846, 3269, 785,
              6879, 5008, 7098, 4235, 6195, 3731, 892, 5792, 11>>

\* A value does not fit the type: checked arithmetic aborts the call there.
Over128(a) == Lt(U128_MAX, a)
Over256(a) == Lt(U256_MAX, a)

\* The value of a computation that has aborted.  It is no number (its limb
\* is negative) and every checked operation hands it on.
Panic == <<-1>>

IsPanic(a) == a # <<>> /\ a[1] < 0

Fit128(a) == IF IsPanic(a) \/ Over128(a) THEN Panic ELSE a

Fit256(a) == IF IsPanic(a) \/ Over256(a) THEN Panic ELSE a

\* u128 and U256 arithmetic: +, * abort on overflow, - on underflow, / on a
\* zero divisor.
Add128(a, b) == IF IsPanic(a) \/ IsPanic(b) THEN Panic ELSE Fit128(Add(a, b))

Add256(a, b) == IF IsPanic(a) \/ IsPanic(b) THEN Panic ELSE Fit256(Add(a, b))

Mul128(a, b) == IF IsPanic(a) \/ IsPanic(b) THEN Panic ELSE Fit128(Mul(a, b))

Mul256(a, b) == IF IsPanic(a) \/ IsPanic(b) THEN Panic ELSE Fit256(Mul(a, b))

SubChecked(a, b) ==
    IF IsPanic(a) \/ IsPanic(b) THEN Panic
    ELSE IF Lt(a, b) THEN Panic ELSE Sub(a, b)

DivChecked(a, b) ==
    IF IsPanic(a) \/ IsPanic(b) THEN Panic
    ELSE IF b = <<>> THEN Panic ELSE Div(a, b)

\* `x as u64` of a u128: the low 64 bits.
AsU64(a) ==
    IF IsPanic(a) THEN Panic
    ELSE IF Lt(a, U64_MOD) THEN a
    ELSE Sub(a, Mul(Div(a, U64_MOD), U64_MOD))

NONE == "none"

\* Option<U128> and Option<u64> arguments.
Some(v) == [some |-> TRUE, v |-> v]

None == [some |-> FALSE, v |-> <<>>]

NoCount == [some |-> FALSE, v |-> 0]

(***************************************************************************)
(* Curve kernels.  A quote is a record; `panic` says that the computation  *)
(* aborted (an arithmetic failure of u128 or U256), and then the other     *)
(* fields mean nothing.                                                    *)
(***************************************************************************)
BuyInfo(code, spot, delta, value, pfee) ==
    [panic |-> FALSE, error_code |-> code, new_spot_price |-> spot,
     new_delta |-> delta, input_value |-> value, protocol_fee |-> pfee]

BuyPanic ==
    [panic |-> TRUE, error_code |-> "Ok", new_spot_price |-> <<>>,
     new_delta |-> <<>>, input_value |-> <<>>, protocol_fee |-> <<>>]

SellInfo(code, spot, delta, value, pfee) ==
    [panic |-> FALSE, error_code |-> code, new_spot_price |-> spot,
     new_delta |-> delta, output_value |-> value, protocol_fee |-> pfee]

SellPanic ==
    [panic |-> TRUE, error_code |-> "Ok", new_spot_price |-> <<>>,
     new_delta |-> <<>>, output_value |-> <<>>, protocol_fee |-> <<>>]

linear_validate_delta(delta) == TRUE

linear_validate_spot_price(new_spot_price) == TRUE

\* get_buy_info without the second term of its line 42: every item is
\* priced at spot_price + delta.
linear_get_buy_info_flat(spot_price, delta, num_items, fee_multiplier, protocol_fee_multiplier) ==
    LET n == N(num_items)
        Quote(new_spot_rice, input_value, protocol_fee) ==
            IF IsPanic(new_spot_rice) \/ IsPanic(input_value) THEN BuyPanic
            \* `new_spot_rice > u128::MAX` is tested on a u128 and never holds
            ELSE BuyInfo("Ok", new_spot_rice, delta, input_value, protocol_fee)
        Total(new_spot_rice, with_fee, protocol_fee) ==
            Quote(new_spot_rice, Add256(with_fee, protocol_fee), protocol_fee)
        Fees(new_spot_rice, input_value) ==
            Total(new_spot_rice,
                  Add256(input_value,
                         DivChecked(Mul256(input_value, fee_multiplier), WAD)),
                  DivChecked(Mul256(input_value, protocol_fee_multiplier), WAD))
    IN  IF num_items = 0
        THEN BuyInfo("InvalidNumItem", <<>>, <<>>, <<>>, <<>>)
        ELSE Fees(Add128(spot_price, Mul128(delta, n)),
                  Mul256(n, Add128(spot_price, delta)))

\* linear_get_buy_info with the first item priced at the spot price.
linear_get_buy_info_at_spot(spot_price, delta, num_items, fee_multiplier, protocol_fee_multiplier) ==
    LET n == N(num_items)
        Quote(new_spot_rice, input_value, protocol_fee) ==
            IF IsPanic(new_spot_rice) \/ IsPanic(input_value) THEN BuyPanic
            \* `new_spot_rice > u128::MAX` is tested on a u128 and never holds
            ELSE BuyInfo("Ok", new_spot_rice, delta, input_value, protocol_fee)
        Total(new_spot_rice, with_fee, protocol_fee) ==
            Quote(new_spot_rice, Add256(with_fee, protocol_fee), protocol_fee)
        Fees(new_spot_rice, input_value) ==
            Total(new_spot_rice,
                  Add256(input_value,
                         DivChecked(Mul256(input_value, fee_multiplier), WAD)),
                  DivChecked(Mul256(input_value, protocol_fee_multiplier), WAD))
    IN  IF num_items = 0
        THEN BuyInfo("InvalidNumItem", <<>>, <<>>, <<>>, <<>>)
        ELSE Fees(Add128(spot_price, Mul128(delta, n)),
                  Add256(Mul256(n, spot_price),
                         DivChecked(Mul256(Mul256(n, N(num_items - 1)), delta),
                                    N(2))))


linear_get_buy_info(spot_price, delta, num_items, fee_multiplier, protocol_fee_multiplier) ==
    LET n == N(num_items)
        Quote(new_spot_rice, input_value, protocol_fee) ==
            IF IsPanic(new_spot_rice) \/ IsPanic(input_value) THEN BuyPanic
            \* `new_spot_rice > u128::MAX` is tested on a u128 and never holds
            ELSE BuyInfo("Ok", new_spot_rice, delta, input_value, protocol_fee)
        Total(new_spot_rice, with_fee, protocol_fee) ==
            Quote(new_spot_rice, Add256(with_fee, protocol_fee), protocol_fee)
        Fees(new_spot_rice, input_value) ==
            Total(new_spot_rice,
                  Add256(input_value,
                         DivChecked(Mul256(input_value, fee_multiplier), WAD)),
                  DivChecked(Mul256(input_value, protocol_fee_multiplier), WAD))
    IN  IF num_items = 0
        THEN BuyInfo("InvalidNumItem", <<>>, <<>>, <<>>, <<>>)
        ELSE Fees(Add128(spot_price, Mul128(delta, n)),
                  Add256(Mul256(n, Add128(spot_price, delta)),
                         DivChecked(Mul256(Mul256(n, N(num_items - 1)), delta),
                                    N(2))))

\* get_sell_info with the first item priced at spot_price - delta instead of
\* spot_price.
linear_get_sell_info_below(spot_price, delta, num_items, fee_multiplier, protocol_fee_multiplier) ==
    LET Quote(new_spot_price, output_value, protocol_fee) ==
            IF IsPanic(new_spot_price) \/ IsPanic(output_value) THEN SellPanic
            ELSE SellInfo("Ok", new_spot_price, delta, output_value, protocol_fee)
        Total(new_spot_price, after_fee, protocol_fee) ==
            Quote(new_spot_price, SubChecked(after_fee, protocol_fee), protocol_fee)
        Fees(new_spot_price, output_value) ==
            Total(new_spot_price,
                  SubChecked(output_value,
                             DivChecked(Mul256(output_value, fee_multiplier), WAD)),
                  DivChecked(Mul256(output_value, protocol_fee_multiplier), WAD))
        \* n is the u64 num_items after the clamp; n - 1 aborts on a zero
        Value(new_spot_price, n) ==
            Fees(new_spot_price,
                 SubChecked(Mul256(SubChecked(spot_price, delta), n),
                            DivChecked(Mul256(Mul256(n, SubChecked(n, N(1))), delta),
                                       N(2))))
        Clamp(total_price_decrease) ==
            IF IsPanic(total_price_decrease) THEN SellPanic
            ELSE IF Lt(spot_price, total_price_decrease)
            THEN Value(<<>>, AsU64(Add128(DivChecked(spot_price, delta), N(1))))
            ELSE Value(Sub(spot_price, total_price_decrease), N(num_items))
    IN  IF num_items = 0
        THEN SellInfo("InvalidNumItem", <<>>, <<>>, <<>>, <<>>)
        ELSE Clamp(Mul256(delta, N(num_items)))

\* get_sell_info without its lines 80-81: a sell that takes the price to
\* zero still prices all num_items items.
linear_get_sell_info_unclamped(spot_price, delta, num_items, fee_multiplier, protocol_fee_multiplier) ==
    LET Quote(new_spot_price, output_value, protocol_fee) ==
            IF IsPanic(new_spot_price) \/ IsPanic(output_value) THEN SellPanic
            ELSE SellInfo("Ok", new_spot_price, delta, output_value, protocol_fee)
        Total(new_spot_price, after_fee, protocol_fee) ==
            Quote(new_spot_price, SubChecked(after_fee, protocol_fee), protocol_fee)
        Fees(new_spot_price, output_value) ==
            Total(new_spot_price,
                  SubChecked(output_value,
                             DivChecked(Mul256(output_value, fee_multiplier), WAD)),
                  DivChecked(Mul256(output_value, protocol_fee_multiplier), WAD))
        \* n is the u64 num_items after the clamp; n - 1 aborts on a zero
        Value(new_spot_price, n) ==
            Fees(new_spot_price,
                 SubChecked(Mul256(spot_price, n),
                            DivChecked(Mul256(Mul256(n, SubChecked(n, N(1))), delta),
                                       N(2))))
        Clamp(total_price_decrease) ==
            IF IsPanic(total_price_decrease) THEN SellPanic
            ELSE IF Lt(spot_price, total_price_decrease)
            THEN Value(<<>>, N(num_items))
            ELSE Value(Sub(spot_price, total_price_decrease), N(num_items))
    IN  IF num_items = 0
        THEN SellInfo("InvalidNumItem", <<>>, <<>>, <<>>, <<>>)
        ELSE Clamp(Mul256(delta, N(num_items)))

linear_get_sell_info(spot_price, delta, num_items, fee_multiplier, protocol_fee_multiplier) ==
    LET Quote(new_spot_price, output_value, protocol_fee) ==
            IF IsPanic(new_spot_price) \/ IsPanic(output_value) THEN SellPanic
            ELSE SellInfo("Ok", new_spot_price, delta, output_value, protocol_fee)
        Total(new_spot_price, after_fee, protocol_fee) ==
            Quote(new_spot_price, SubChecked(after_fee, protocol_fee), protocol_fee)
        Fees(new_spot_price, output_value) ==
            Total(new_spot_price,
                  SubChecked(output_value,
                             DivChecked(Mul256(output_value, fee_multiplier), WAD)),
                  DivChecked(Mul256(output_value, protocol_fee_multiplier), WAD))
        \* n is the u64 num_items after the clamp; n - 1 aborts on a zero
        Value(new_spot_price, n) ==
            Fees(new_spot_price,
                 SubChecked(Mul256(spot_price, n),
                            DivChecked(Mul256(Mul256(n, SubChecked(n, N(1))), delta),
                                       N(2))))
        Clamp(total_price_decrease) ==
            IF IsPanic(total_price_decrease) THEN SellPanic
            ELSE IF Lt(spot_price, total_price_decrease)
            THEN Value(<<>>, AsU64(Add128(DivChecked(spot_price, delta), N(1))))
            ELSE Value(Sub(spot_price, total_price_decrease), N(num_items))
    IN  IF num_items = 0
        THEN SellInfo("InvalidNumItem", <<>>, <<>>, <<>>, <<>>)
        ELSE Clamp(Mul256(delta, N(num_items)))

RECURSIVE fpow_loop(_, _, _, _)
fpow_loop(z, x, n, base_unit) ==
    IF n = 0 THEN z
    ELSE fpow_loop(DivChecked(Mul256(z, x), base_unit), x, n - 1, base_unit)

\* fpow with the loop started from 1 instead of base_unit.
fpow_from_one(x, n, base_unit) ==
    IF IsPanic(x) THEN Panic
    ELSE IF x = <<>> THEN (IF n = 0 THEN base_unit ELSE <<>>)
    ELSE fpow_loop(N(1), x, n, base_unit)

fpow(x, n, base_unit) ==
    IF IsPanic(x) THEN Panic
    ELSE IF x = <<>> THEN (IF n = 0 THEN base_unit ELSE <<>>)
    ELSE fpow_loop(base_unit, x, n, base_unit)

exponential_validate_delta(delta) == Lt(WAD, delta)

exponential_validate_spot_price(new_spot_price) == Le(MIN_PRICE, new_spot_price)

exponential_get_buy_info(spot_price, delta, num_items, fee_multiplier, protocol_fee_multiplier) ==
    LET Quote(new_spot_rice, input_value) ==
            IF IsPanic(input_value) THEN BuyPanic
            \* the quote's protocol_fee field is given input_value
            ELSE BuyInfo("Ok", new_spot_rice, delta, input_value, input_value)
        Fees(new_spot_rice, input_value) ==
            Quote(new_spot_rice,
                  Add256(Add256(input_value,
                                DivChecked(Mul256(input_value, fee_multiplier), WAD)),
                         DivChecked(Mul256(input_value, protocol_fee_multiplier),
                                    WAD)))
        Value(new_spot_rice, delta_pow_n) ==
            IF IsPanic(new_spot_rice) THEN BuyPanic
            ELSE IF Over128(new_spot_rice)
            THEN BuyInfo("SpotPriceOverflow", <<>>, <<>>, <<>>, <<>>)
            ELSE Fees(new_spot_rice,
                      DivChecked(
                          Mul256(DivChecked(Mul256(spot_price, delta), WAD),
                                 DivChecked(Mul256(SubChecked(delta_pow_n, WAD), WAD),
                                            SubChecked(delta, WAD))),
                          WAD))
        Spot(delta_pow_n) ==
            Value(DivChecked(Mul256(spot_price, delta_pow_n), WAD), delta_pow_n)
    IN  IF num_items = 0
        THEN BuyInfo("InvalidNumItem", <<>>, <<>>, <<>>, <<>>)
        ELSE Spot(DivChecked(Mul256(delta, N(num_items)), WAD))

exponential_get_sell_info(spot_price, delta, num_items, fee_multiplier, protocol_fee_multiplier) ==
    LET Quote(new_spot_price, output_value, protocol_fee) ==
            IF IsPanic(new_spot_price) \/ IsPanic(output_value) THEN SellPanic
            ELSE SellInfo("Ok",
                          IF Lt(new_spot_price, MIN_PRICE) THEN MIN_PRICE
                          ELSE new_spot_price,
                          delta, output_value, protocol_fee)
        Total(new_spot_price, after_fee, protocol_fee) ==
            Quote(new_spot_price, SubChecked(after_fee, protocol_fee), protocol_fee)
        Fees(new_spot_price, output_value) ==
            Total(new_spot_price,
                  SubChecked(output_value,
                             DivChecked(Mul256(output_value, fee_multiplier), WAD)),
                  DivChecked(Mul256(output_value, protocol_fee_multiplier), WAD))
        Value(inv_delta, inv_delta_pow_n) ==
            Fees(Fit128(DivChecked(Mul256(spot_price, inv_delta_pow_n), WAD)),
                 DivChecked(
                     Mul256(spot_price,
                            DivChecked(Mul256(SubChecked(WAD, inv_delta_pow_n), WAD),
                                       SubChecked(WAD, inv_delta))),
                     WAD))
        Power(inv_delta) == Value(inv_delta, fpow(inv_delta, num_items, WAD))
    IN  IF num_items = 0
        THEN SellInfo("InvalidNumItem", <<>>, <<>>, <<>>, <<>>)
        ELSE Power(DivChecked(Mul256(WAD, WAD), delta))

(***************************************************************************)
(* Curve: the dispatch on the pool's curve type.                           *)
(***************************************************************************)
validate_delta(curve, delta) ==
    IF curve = "LinearCurve" THEN linear_validate_delta(delta)
    ELSE exponential_validate_delta(delta)

validate_spot_price(curve, new_spot_price) ==
    IF curve = "LinearCurve" THEN linear_validate_spot_price(new_spot_price)
    ELSE exponential_validate_spot_price(new_spot_price)

get_buy_info(curve, spot_price, delta, num_items, fee_multiplier, protocol_fee_multiplier) ==
    IF curve = "LinearCurve"
    THEN linear_get_buy_info(spot_price, delta, num_items, fee_multiplier,
                             protocol_fee_multiplier)
    ELSE exponential_get_buy_info(spot_price, delta, num_items,
                                  fee_multiplier, protocol_fee_multiplier)

get_sell_info(curve, spot_price, delta, num_items, fee_multiplier, protocol_fee_multiplier) ==
    IF curve = "LinearCurve"
    THEN linear_get_sell_info(spot_price, delta, num_items, fee_multiplier,
                              protocol_fee_multiplier)
    ELSE exponential_get_sell_info(spot_price, delta, num_items,
                                   fee_multiplier, protocol_fee_multiplier)


(***************************************************************************)
(* near_sdk UnorderedMap<TokenId, DepositedToken> (Pair.token_ids_in_pools)*)
(* as the sequence of its entries in the order of the map's key vector:    *)
(* a new key is pushed at the end, an existing key keeps its place, and    *)
(* remove moves the last entry into the place of the removed one           *)
(* (swap_remove).  keys() iterates in that order.  DepositedToken's        *)
(* min_price is always 0 and is left out.                                  *)
(***************************************************************************)
MapHas(m, k) == \E i \in 1..Len(m) : m[i].token_id = k

MapIndex(m, k) == CHOOSE i \in 1..Len(m) : m[i].token_id = k

MapInsert(m, k, depositor) ==
    LET e == [token_id |-> k, depositor |-> depositor]
    IN  IF MapHas(m, k) THEN [m EXCEPT ![MapIndex(m, k)] = e] ELSE Append(m, e)

MapRemove(m, k) ==
    IF ~MapHas(m, k) THEN m
    ELSE LET i == MapIndex(m, k)
             n == Len(m)
         IN  [j \in 1..(n - 1) |-> IF j = i THEN m[n] ELSE m[j]]

MapKeys(m) == [i \in 1..Len(m) |-> m[i].token_id]

RECURSIVE MapInsertAll(_, _, _)
MapInsertAll(m, ids, depositor) ==
    IF ids = <<>> THEN m
    ELSE MapInsertAll(MapInsert(m, Head(ids), depositor), Tail(ids), depositor)

RECURSIVE MapRemoveAll(_, _)
MapRemoveAll(m, ids) ==
    IF ids = <<>> THEN m ELSE MapRemoveAll(MapRemove(m, Head(ids)), Tail(ids))

Range(seq) == {seq[i] : i \in 1..Len(seq)}

\* UnorderedMap<AccountId, Balance> (lp_balances) and the other maps that are
\* never iterated: a function on the keys present.
Put(f, k, v) == [a \in DOMAIN f \cup {k} |-> IF a = k THEN v ELSE f[a]]

(***************************************************************************)
(* Pair.  A Pair method is an operator from the pair (self) and its        *)
(* arguments to a result record: panic (the call aborted), pair (self      *)
(* afterwards) and what the method returns.  predecessor stands for        *)
(* env::predecessor_account_id() and now for env::block_timestamp_ms().    *)
(***************************************************************************)
PairResult(self, protocol_fee, amount, token_ids) ==
    [panic |-> FALSE, pair |-> self, protocol_fee |-> protocol_fee,
     amount |-> amount, token_ids |-> token_ids]

PairPanic(self) ==
    [panic |-> TRUE, pair |-> self, protocol_fee |-> <<>>, amount |-> <<>>,
     token_ids |-> <<>>]

Pair_new(curve_type, pool_type, nft_token, spot_price, delta, fee, owner, asset_recipient, initial_near_balance, released_time) ==
    LET this == [curve |-> curve_type, pool_type |-> pool_type,
                 nft_token |-> nft_token, spot_price |-> spot_price,
                 delta |-> delta, fee |-> fee, owner |-> owner,
                 asset_recipient |-> IF pool_type \in {"Token", "NFT"}
                                     THEN asset_recipient ELSE NONE,
                 near_balance |-> initial_near_balance,
                 token_ids_in_pools |-> <<>>,
                 released_time |-> released_time,
                 lp_balances |-> <<>>, lp_supply |-> <<>>]
    IN  IF pool_type \in {"Token", "NFT"} /\ (fee # <<>> \/ asset_recipient = NONE)
        THEN PairPanic(this)
        ELSE IF pool_type = "Trade" /\ (~Lt(fee, MAX_FEE) \/ asset_recipient # NONE)
        THEN PairPanic(this)
        ELSE IF ~validate_delta(curve_type, delta) THEN PairPanic(this)
        ELSE IF ~validate_spot_price(curve_type, spot_price) THEN PairPanic(this)
        ELSE PairResult(this, <<>>, <<>>, <<>>)

\* mint_lp without its line 388: the shares are credited, the supply is not.
mint_lp_balance_only(self, account_id, lp) ==
    IF lp = <<>> THEN PairResult(self, <<>>, <<>>, <<>>)
    ELSE
    LET prev_value == IF account_id \in DOMAIN self.lp_balances
                      THEN self.lp_balances[account_id] ELSE <<>>
    IN  IF Over128(Add(prev_value, lp)) THEN PairPanic(self)
        ELSE PairResult([self EXCEPT
                           !.lp_balances = Put(self.lp_balances, account_id,
                                               Add(prev_value, lp))],
                        <<>>, <<>>, <<>>)

mint_lp(self, account_id, lp) ==
    IF lp = <<>> THEN PairResult(self, <<>>, <<>>, <<>>)
    ELSE
    LET prev_value == IF account_id \in DOMAIN self.lp_balances
                      THEN self.lp_balances[account_id] ELSE <<>>
    IN  IF Over128(Add(self.lp_supply, lp)) \/ Over128(Add(prev_value, lp))
        THEN PairPanic(self)
        ELSE PairResult([self EXCEPT
                           !.lp_supply = Add(self.lp_supply, lp),
                           !.lp_balances = Put(self.lp_balances, account_id,
                                               Add(prev_value, lp))],
                        <<>>, <<>>, <<>>)

\* deposit_and_mint_lp with the pro-rata share rounded up.
deposit_and_mint_lp_rounded_up(self, depositor, receiver_id, token_ids, near_balance) ==
    LET parity    == Mul(N(Len(token_ids)), self.spot_price)
        inventory == MapInsertAll(self.token_ids_in_pools, token_ids, depositor)
        balance   == Add(self.near_balance, near_balance)
        product   == Mul(self.lp_supply, N(Len(token_ids)))
        lp_amount == IF self.lp_supply # <<>> /\ inventory # <<>>
                     THEN Div(Add(product, N(Len(inventory) - 1)), N(Len(inventory)))
                     ELSE balance
        after     == [self EXCEPT !.token_ids_in_pools = inventory,
                                  !.near_balance = balance]
    IN  IF self.pool_type = "Trade" /\ (Over128(parity) \/ Lt(near_balance, parity))
        THEN PairPanic(self)
        ELSE IF Over128(balance) THEN PairPanic(self)
        ELSE IF self.lp_supply # <<>> /\ inventory # <<>> /\ Over128(product)
        THEN PairPanic(self)
        ELSE mint_lp(after, receiver_id, lp_amount)


deposit_and_mint_lp(self, depositor, receiver_id, token_ids, near_balance) ==
    LET parity    == Mul(N(Len(token_ids)), self.spot_price)
        inventory == MapInsertAll(self.token_ids_in_pools, token_ids, depositor)
        balance   == Add(self.near_balance, near_balance)
        product   == Mul(self.lp_supply, N(Len(token_ids)))
        lp_amount == IF self.lp_supply # <<>> /\ inventory # <<>>
                     THEN Div(product, N(Len(inventory)))
                     ELSE balance
        after     == [self EXCEPT !.token_ids_in_pools = inventory,
                                  !.near_balance = balance]
    IN  IF self.pool_type = "Trade" /\ (Over128(parity) \/ Lt(near_balance, parity))
        THEN PairPanic(self)
        ELSE IF Over128(balance) THEN PairPanic(self)
        ELSE IF self.lp_supply # <<>> /\ inventory # <<>> /\ Over128(product)
        THEN PairPanic(self)
        ELSE mint_lp(after, receiver_id, lp_amount)

internal_add_token_ids(self, depositor, token_ids) ==
    [self EXCEPT !.token_ids_in_pools =
                     MapInsertAll(self.token_ids_in_pools, token_ids, depositor)]

\* The comparison of the source: the predecessor with the predecessor.
assert_owner(self, predecessor) == predecessor = predecessor

assert_not_trading_pool(self) == self.pool_type # "Trade"

\* assert_release without its require!.
assert_release_unlocked(self, now_ms) == TRUE

assert_release(self, now_ms) == self.released_time <= now_ms \div 1000

Pair_withdraw_near(self, predecessor, now_ms, near_amount) ==
    IF self.pool_type = "Trade" THEN PairPanic(self)
    ELSE IF ~assert_owner(self, predecessor) THEN PairPanic(self)
    ELSE IF ~assert_release(self, now_ms) THEN PairPanic(self)
    ELSE IF Lt(near_amount, self.near_balance)
    THEN PairResult([self EXCEPT !.near_balance = Sub(self.near_balance, near_amount)],
                    <<>>, near_amount, <<>>)
    ELSE PairResult([self EXCEPT !.near_balance = <<>>], <<>>, self.near_balance, <<>>)

\* The ids are removed one by one; an id that is absent when its turn comes
\* (never held, or named twice) aborts the call.
RECURSIVE RemoveEach(_, _)
RemoveEach(m, ids) ==
    IF ids = <<>> THEN [panic |-> FALSE, map |-> m]
    ELSE IF ~MapHas(m, Head(ids)) THEN [panic |-> TRUE, map |-> m]
    ELSE RemoveEach(MapRemove(m, Head(ids)), Tail(ids))

Pair_withdraw_nfts(self, predecessor, now_ms, token_ids) ==
    IF self.pool_type = "Trade" THEN PairPanic(self)
    ELSE IF ~assert_owner(self, predecessor) THEN PairPanic(self)
    ELSE IF ~assert_release(self, now_ms) THEN PairPanic(self)
    ELSE LET r == RemoveEach(self.token_ids_in_pools, token_ids)
         IN  IF r.panic THEN PairPanic(self)
             ELSE PairResult([self EXCEPT !.token_ids_in_pools = r.map],
                             <<>>, <<>>, token_ids)


calculate_buy_info_and_update_pool(self, num_nfts, max_expected_near_input, protocol_fee_multiplier) ==
    LET Update(buy_info) ==
            IF buy_info.panic \/ buy_info.error_code # "Ok" THEN PairPanic(self)
            ELSE IF Lt(max_expected_near_input, buy_info.input_value)
            THEN PairPanic(self)
            ELSE IF Over128(buy_info.input_value) THEN PairPanic(self) \* as_u128
            ELSE PairResult([self EXCEPT !.spot_price = buy_info.new_spot_price,
                                         !.delta = buy_info.new_delta],
                            buy_info.protocol_fee, buy_info.input_value, <<>>)
    IN  Update(get_buy_info(self.curve, self.spot_price, self.delta, num_nfts,
                            self.fee, protocol_fee_multiplier))

calculate_sell_info_and_update_pool(self, num_nfts, min_expected_near_output, protocol_fee_multiplier) ==
    LET Update(sell_info) ==
            IF sell_info.panic \/ sell_info.error_code # "Ok" THEN PairPanic(self)
            ELSE IF Over128(sell_info.output_value) THEN PairPanic(self) \* as_u128
            ELSE IF Lt(sell_info.output_value, min_expected_near_output)
            THEN PairPanic(self)
            ELSE PairResult([self EXCEPT !.spot_price = sell_info.new_spot_price,
                                         !.delta = sell_info.new_delta],
                            sell_info.protocol_fee, sell_info.output_value, <<>>)
    IN  Update(get_sell_info(self.curve, self.spot_price, self.delta, num_nfts,
                             self.fee, protocol_fee_multiplier))

\* BuyCredit with near_balance += input_amount, the protocol fee kept.
BuyCredit_gross(self, quote, token_ids) ==
    IF Over128(quote.protocol_fee) THEN PairPanic(self)
    ELSE IF self.asset_recipient # NONE
    THEN PairResult(self, quote.protocol_fee, quote.amount, token_ids)
    ELSE IF Over128(Add(self.near_balance, quote.amount)) THEN PairPanic(self)
    ELSE PairResult([self EXCEPT !.near_balance = Add(self.near_balance, quote.amount)],
                    quote.protocol_fee, quote.amount, token_ids)

\* The end of both buys: protocol_fee.as_u128(), and the coin credited to a
\* pool without an asset recipient.
BuyCredit(self, quote, token_ids) ==
    IF Over128(quote.protocol_fee) THEN PairPanic(self)
    ELSE IF self.asset_recipient # NONE
    THEN PairResult(self, quote.protocol_fee, quote.amount, token_ids)
    ELSE IF Lt(quote.amount, quote.protocol_fee) THEN PairPanic(self)
    ELSE IF Over128(Add(self.near_balance, Sub(quote.amount, quote.protocol_fee)))
    THEN PairPanic(self)
    ELSE PairResult([self EXCEPT !.near_balance =
                        Add(self.near_balance, Sub(quote.amount, quote.protocol_fee))],
                    quote.protocol_fee, quote.amount, token_ids)

\* swap_near_for_any_nfts without its first require!: any pool sells.
swap_near_for_any_nfts_any_pool(self, deposit_near_amount, num_nfts, protocol_fee_multiplier) ==
    LET token_ids == SubSeq(MapKeys(self.token_ids_in_pools), 1, num_nfts)
        Credit(quote) ==
            IF quote.panic THEN PairPanic(self)
            ELSE BuyCredit([quote.pair EXCEPT !.token_ids_in_pools =
                               MapRemoveAll(self.token_ids_in_pools, token_ids)],
                           quote, token_ids)
    IN  IF ~(num_nfts > 0 /\ num_nfts <= Len(self.token_ids_in_pools))
        THEN PairPanic(self)
        ELSE Credit(calculate_buy_info_and_update_pool(self, num_nfts,
                        deposit_near_amount, protocol_fee_multiplier))

swap_near_for_any_nfts(self, deposit_near_amount, num_nfts, protocol_fee_multiplier) ==
    LET token_ids == SubSeq(MapKeys(self.token_ids_in_pools), 1, num_nfts)
        Credit(quote) ==
            IF quote.panic THEN PairPanic(self)
            ELSE BuyCredit([quote.pair EXCEPT !.token_ids_in_pools =
                               MapRemoveAll(self.token_ids_in_pools, token_ids)],
                           quote, token_ids)
    IN  IF self.pool_type \notin {"NFT", "Trade"} THEN PairPanic(self)
        ELSE IF ~(num_nfts > 0 /\ num_nfts <= Len(self.token_ids_in_pools))
        THEN PairPanic(self)
        ELSE Credit(calculate_buy_info_and_update_pool(self, num_nfts,
                        deposit_near_amount, protocol_fee_multiplier))

swap_near_for_specific_nfts(self, deposit_near_amount, nft_ids, protocol_fee_multiplier) ==
    LET r == RemoveEach(self.token_ids_in_pools, nft_ids)
        Credit(quote) ==
            IF quote.panic \/ r.panic THEN PairPanic(self)
            ELSE BuyCredit([quote.pair EXCEPT !.token_ids_in_pools = r.map],
                           quote, nft_ids)
    IN  IF self.pool_type \notin {"NFT", "Trade"} THEN PairPanic(self)
        ELSE IF Len(nft_ids) = 0 THEN PairPanic(self)
        ELSE Credit(calculate_buy_info_and_update_pool(self, Len(nft_ids),
                        deposit_near_amount, protocol_fee_multiplier))

\* swap_nfts_for_near without its line 301: the output paid is not compared
\* with min_near_out.
swap_nfts_for_near_unchecked(self, predecessor, nft_ids, min_near_out, protocol_fee_multiplier) ==
    LET Hold(paid) ==
            IF self.asset_recipient = NONE
            THEN internal_add_token_ids(paid, predecessor, nft_ids)
            ELSE paid
        Fee(pair, quote, output_amount, after_output) ==
            IF Le(quote.protocol_fee, after_output)
            THEN PairResult(Hold([pair EXCEPT !.near_balance =
                                     Sub(after_output, quote.protocol_fee)]),
                            quote.protocol_fee, output_amount, nft_ids)
            ELSE PairResult(Hold([pair EXCEPT !.near_balance = <<>>]),
                            after_output, output_amount, nft_ids)
        Pay(quote) ==
            IF quote.panic THEN PairPanic(self)
            ELSE IF Over128(quote.protocol_fee) THEN PairPanic(self) \* as_u128
            ELSE IF Le(quote.amount, quote.pair.near_balance)
            THEN Fee(quote.pair, quote, quote.amount,
                     Sub(quote.pair.near_balance, quote.amount))
            ELSE Fee(quote.pair, quote, quote.pair.near_balance, <<>>)
    IN  IF self.pool_type \notin {"Token", "Trade"} THEN PairPanic(self)
        ELSE IF Len(nft_ids) = 0 THEN PairPanic(self)
        ELSE Pay(calculate_sell_info_and_update_pool(self, Len(nft_ids),
                     min_near_out, protocol_fee_multiplier))

\* swap_nfts_for_near without its line 286: a pool short of the output pays
\* its whole balance and keeps it.
swap_nfts_for_near_not_zeroed(self, predecessor, nft_ids, min_near_out, protocol_fee_multiplier) ==
    LET Hold(paid) ==
            IF self.asset_recipient = NONE
            THEN internal_add_token_ids(paid, predecessor, nft_ids)
            ELSE paid
        Fee(pair, quote, output_amount, after_output) ==
            IF Lt(output_amount, min_near_out) THEN PairPanic(self)
            ELSE IF Le(quote.protocol_fee, after_output)
            THEN PairResult(Hold([pair EXCEPT !.near_balance =
                                     Sub(after_output, quote.protocol_fee)]),
                            quote.protocol_fee, output_amount, nft_ids)
            ELSE PairResult(Hold([pair EXCEPT !.near_balance = <<>>]),
                            after_output, output_amount, nft_ids)
        Pay(quote) ==
            IF quote.panic THEN PairPanic(self)
            ELSE IF Over128(quote.protocol_fee) THEN PairPanic(self) \* as_u128
            ELSE IF Le(quote.amount, quote.pair.near_balance)
            THEN Fee(quote.pair, quote, quote.amount,
                     Sub(quote.pair.near_balance, quote.amount))
            ELSE Fee(quote.pair, quote, quote.pair.near_balance,
                     quote.pair.near_balance)
    IN  IF self.pool_type \notin {"Token", "Trade"} THEN PairPanic(self)
        ELSE IF Len(nft_ids) = 0 THEN PairPanic(self)
        ELSE Pay(calculate_sell_info_and_update_pool(self, Len(nft_ids),
                     min_near_out, protocol_fee_multiplier))

swap_nfts_for_near(self, predecessor, nft_ids, min_near_out, protocol_fee_multiplier) ==
    LET Hold(paid) ==
            IF self.asset_recipient = NONE
            THEN internal_add_token_ids(paid, predecessor, nft_ids)
            ELSE paid
        Fee(pair, quote, output_amount, after_output) ==
            IF Lt(output_amount, min_near_out) THEN PairPanic(self)
            ELSE IF Le(quote.protocol_fee, after_output)
            THEN PairResult(Hold([pair EXCEPT !.near_balance =
                                     Sub(after_output, quote.protocol_fee)]),
                            quote.protocol_fee, output_amount, nft_ids)
            ELSE PairResult(Hold([pair EXCEPT !.near_balance = <<>>]),
                            after_output, output_amount, nft_ids)
        Pay(quote) ==
            IF quote.panic THEN PairPanic(self)
            ELSE IF Over128(quote.protocol_fee) THEN PairPanic(self) \* as_u128
            ELSE IF Le(quote.amount, quote.pair.near_balance)
            THEN Fee(quote.pair, quote, quote.amount,
                     Sub(quote.pair.near_balance, quote.amount))
            ELSE Fee(quote.pair, quote, quote.pair.near_balance, <<>>)
    IN  IF self.pool_type \notin {"Token", "Trade"} THEN PairPanic(self)
        ELSE IF Len(nft_ids) = 0 THEN PairPanic(self)
        ELSE Pay(calculate_sell_info_and_update_pool(self, Len(nft_ids),
                     min_near_out, protocol_fee_multiplier))

\* lp_transfer without its lines 378-380: the sender is debited and the
\* receiver's balance is not written.
Pair_lp_transfer_debit_only(self, sender_id, receiver_id, amount) ==
    IF sender_id \notin DOMAIN self.lp_balances THEN PairPanic(self)
    ELSE IF Lt(self.lp_balances[sender_id], amount) THEN PairPanic(self)
    ELSE
    LET debited == [self EXCEPT !.lp_balances[sender_id] =
                                    Sub(self.lp_balances[sender_id], amount)]
    IN  IF receiver_id \notin DOMAIN debited.lp_balances THEN PairPanic(self)
        ELSE PairResult(debited, <<>>, <<>>, <<>>)

Pair_lp_transfer(self, sender_id, receiver_id, amount) ==
    IF sender_id \notin DOMAIN self.lp_balances THEN PairPanic(self)
    ELSE IF Lt(self.lp_balances[sender_id], amount) THEN PairPanic(self)
    ELSE
    LET debited == [self EXCEPT !.lp_balances[sender_id] =
                                    Sub(self.lp_balances[sender_id], amount)]
    IN  IF receiver_id \notin DOMAIN debited.lp_balances THEN PairPanic(self)
        ELSE IF Over128(Add(debited.lp_balances[receiver_id], amount))
        THEN PairPanic(self)
        ELSE PairResult([debited EXCEPT !.lp_balances[receiver_id] =
                            Add(debited.lp_balances[receiver_id], amount)],
                        <<>>, <<>>, <<>>)

\* burn_lp without the test of lp against the account's balance.
burn_lp_unchecked(self, account_id, lp, protocol_fee_multiplier) ==
    LET prev_value == IF account_id \in DOMAIN self.lp_balances
                      THEN self.lp_balances[account_id] ELSE <<>>
        held       == N(Len(self.token_ids_in_pools))
        Settle(withdrawable_near, token_ids, protocol_fee) ==
            IF \/ IsPanic(protocol_fee)
               \/ Lt(self.lp_supply, lp)
               \/ Lt(self.near_balance, withdrawable_near)
            THEN PairPanic(self)
            ELSE PairResult([self EXCEPT
                               !.token_ids_in_pools =
                                   MapRemoveAll(self.token_ids_in_pools, token_ids),
                               !.lp_balances = Put(self.lp_balances, account_id,
                                                   IF Lt(prev_value, lp) THEN <<>>
                                                   ELSE Sub(prev_value, lp)),
                               !.lp_supply = Sub(self.lp_supply, lp),
                               !.near_balance = Sub(self.near_balance,
                                                    withdrawable_near)],
                            protocol_fee, withdrawable_near, token_ids)
        Take(withdrawable_near, num_nfts_to_withdraw) ==
            IF IsPanic(withdrawable_near) THEN PairPanic(self)
            ELSE Settle(withdrawable_near,
                        SubSeq(MapKeys(self.token_ids_in_pools), 1,
                               IF Lt(num_nfts_to_withdraw, held)
                               THEN ToInt(num_nfts_to_withdraw)
                               ELSE Len(self.token_ids_in_pools)),
                        Fit128(DivChecked(Mul256(withdrawable_near,
                                                 protocol_fee_multiplier), WAD)))
        \* require!(value_in_fraction_nft >= withdrawable_near), then -=
        Fraction(withdrawable_near, num_nfts_to_withdraw, value_in_fraction_nft) ==
            IF IsPanic(num_nfts_to_withdraw) THEN PairPanic(self)
            ELSE Take(SubChecked(withdrawable_near,
                                 SubChecked(value_in_fraction_nft, withdrawable_near)),
                      num_nfts_to_withdraw)
        NewSpot(buy_info) ==
            IF buy_info.panic THEN Panic ELSE buy_info.new_spot_price
        Round(withdrawable_near, num_nfts_to_withdraw, product) ==
            IF IsPanic(withdrawable_near) \/ IsPanic(num_nfts_to_withdraw)
               \/ IsPanic(product)
            THEN PairPanic(self)
            ELSE IF product # Mul(lp, held)
            THEN Fraction(withdrawable_near, Add128(num_nfts_to_withdraw, N(1)),
                          Add128(Mul128(num_nfts_to_withdraw, self.spot_price),
                                 NewSpot(get_buy_info(self.curve, self.spot_price,
                                             self.delta, 1, self.fee,
                                             protocol_fee_multiplier))))
            ELSE Take(withdrawable_near, num_nfts_to_withdraw)
        Share(num_nfts_to_withdraw) ==
            Round(Fit128(DivChecked(Mul256(Mul256(held, self.spot_price), lp),
                                    self.lp_supply)),
                  num_nfts_to_withdraw,
                  Mul128(num_nfts_to_withdraw, self.lp_supply))
    IN  IF lp = <<>> THEN PairResult(self, <<>>, <<>>, <<>>)
        ELSE Share(DivChecked(Mul128(held, lp), self.lp_supply))


burn_lp(self, account_id, lp, protocol_fee_multiplier) ==
    LET prev_value == IF account_id \in DOMAIN self.lp_balances
                      THEN self.lp_balances[account_id] ELSE <<>>
        held       == N(Len(self.token_ids_in_pools))
        Settle(withdrawable_near, token_ids, protocol_fee) ==
            IF \/ IsPanic(protocol_fee)
               \/ Lt(self.lp_supply, lp)
               \/ Lt(self.near_balance, withdrawable_near)
            THEN PairPanic(self)
            ELSE PairResult([self EXCEPT
                               !.token_ids_in_pools =
                                   MapRemoveAll(self.token_ids_in_pools, token_ids),
                               !.lp_balances = Put(self.lp_balances, account_id,
                                                   Sub(prev_value, lp)),
                               !.lp_supply = Sub(self.lp_supply, lp),
                               !.near_balance = Sub(self.near_balance,
                                                    withdrawable_near)],
                            protocol_fee, withdrawable_near, token_ids)
        Take(withdrawable_near, num_nfts_to_withdraw) ==
            IF IsPanic(withdrawable_near) THEN PairPanic(self)
            ELSE Settle(withdrawable_near,
                        SubSeq(MapKeys(self.token_ids_in_pools), 1,
                               IF Lt(num_nfts_to_withdraw, held)
                               THEN ToInt(num_nfts_to_withdraw)
                               ELSE Len(self.token_ids_in_pools)),
                        Fit128(DivChecked(Mul256(withdrawable_near,
                                                 protocol_fee_multiplier), WAD)))
        \* require!(value_in_fraction_nft >= withdrawable_near), then -=
        Fraction(withdrawable_near, num_nfts_to_withdraw, value_in_fraction_nft) ==
            IF IsPanic(num_nfts_to_withdraw) THEN PairPanic(self)
            ELSE Take(SubChecked(withdrawable_near,
                                 SubChecked(value_in_fraction_nft, withdrawable_near)),
                      num_nfts_to_withdraw)
        NewSpot(buy_info) ==
            IF buy_info.panic THEN Panic ELSE buy_info.new_spot_price
        Round(withdrawable_near, num_nfts_to_withdraw, product) ==
            IF IsPanic(withdrawable_near) \/ IsPanic(num_nfts_to_withdraw)
               \/ IsPanic(product)
            THEN PairPanic(self)
            ELSE IF product # Mul(lp, held)
            THEN Fraction(withdrawable_near, Add128(num_nfts_to_withdraw, N(1)),
                          Add128(Mul128(num_nfts_to_withdraw, self.spot_price),
                                 NewSpot(get_buy_info(self.curve, self.spot_price,
                                             self.delta, 1, self.fee,
                                             protocol_fee_multiplier))))
            ELSE Take(withdrawable_near, num_nfts_to_withdraw)
        Share(num_nfts_to_withdraw) ==
            Round(Fit128(DivChecked(Mul256(Mul256(held, self.spot_price), lp),
                                    self.lp_supply)),
                  num_nfts_to_withdraw,
                  Mul128(num_nfts_to_withdraw, self.lp_supply))
    IN  IF lp = <<>> THEN PairResult(self, <<>>, <<>>, <<>>)
        ELSE IF Lt(prev_value, lp) THEN PairPanic(self)
        ELSE Share(DivChecked(Mul128(held, lp), self.lp_supply))

internal_register_account_lp(self, account_id) ==
    IF account_id \in DOMAIN self.lp_balances THEN self
    ELSE [self EXCEPT !.lp_balances = Put(self.lp_balances, account_id, <<>>)]

change_spot_price(self, predecessor, new_spot_price) ==
    IF ~assert_owner(self, predecessor) \/ ~assert_not_trading_pool(self)
    THEN PairPanic(self)
    ELSE PairResult([self EXCEPT !.spot_price = new_spot_price], <<>>, <<>>, <<>>)

change_delta(self, predecessor, new_delta) ==
    IF ~assert_owner(self, predecessor) \/ ~assert_not_trading_pool(self)
    THEN PairPanic(self)
    ELSE PairResult([self EXCEPT !.delta = new_delta], <<>>, <<>>, <<>>)

change_fee(self, predecessor, new_fee) ==
    IF ~assert_owner(self, predecessor) \/ ~assert_not_trading_pool(self)
    THEN PairPanic(self)
    ELSE PairResult([self EXCEPT !.fee = new_fee], <<>>, <<>>, <<>>)

change_asset_recipient(self, predecessor, new_asset_recipient) ==
    IF ~assert_owner(self, predecessor) \/ ~assert_not_trading_pool(self)
    THEN PairPanic(self)
    ELSE PairResult([self EXCEPT !.asset_recipient = new_asset_recipient],
                    <<>>, <<>>, <<>>)


(***************************************************************************)
(* The u8 arguments of create_pair and of a swap action.                   *)
(***************************************************************************)
PoolType_from(val) ==
    CASE val = 0 -> "Token" [] val = 1 -> "NFT" [] val = 2 -> "Trade"
      [] OTHER -> "panic"

BondingCurve_from(val) ==
    CASE val = 0 -> "LinearCurve" [] val = 1 -> "ExponentialCurve"
      [] OTHER -> "panic"

SwapType_from(val) ==
    CASE val = 0 -> "NFTToNear" [] val = 1 -> "NearToNFT" [] OTHER -> "panic"

(***************************************************************************)
(* Contract.  account_deposits is a function on the registered accounts;   *)
(* an AccountDeposit is [assets, near_balance], assets a function from the *)
(* asset ids that have an entry to the set of token ids staged.  The byte  *)
(* counts of the host's storage (storage_usage) are not state of the       *)
(* model: where the code compares a balance with the cost of the bytes     *)
(* used, the outcome of the comparison is an input of the call (covered).  *)
(***************************************************************************)
DepsResult(deps) == [panic |-> FALSE, deps |-> deps]

DepsPanic(deps) == [panic |-> TRUE, deps |-> deps]

NewAccountDeposit == [assets |-> <<>>, near_balance |-> <<>>]

internal_deposit_nft(deps, account_id, asset_id, token_id) ==
    IF account_id \notin DOMAIN deps THEN DepsPanic(deps)
    ELSE
    LET account_deposit == deps[account_id]
        token_ids == IF asset_id \in DOMAIN account_deposit.assets
                     THEN account_deposit.assets[asset_id] ELSE {}
    IN  DepsResult(Put(deps, account_id,
            [account_deposit EXCEPT !.assets =
                Put(account_deposit.assets, asset_id, token_ids \cup {token_id})]))

RECURSIVE DepositEach(_, _, _, _)
DepositEach(deps, account_id, asset_id, token_ids) ==
    IF token_ids = <<>> THEN DepsResult(deps)
    ELSE LET r == internal_deposit_nft(deps, account_id, asset_id, Head(token_ids))
         IN  IF r.panic THEN DepsPanic(deps)
             ELSE DepositEach(r.deps, account_id, asset_id, Tail(token_ids))

\* remove() of a token id that is not staged removes nothing and goes on.
internal_withdraw_nft(deps, account_id, asset_id, token_ids) ==
    IF account_id \notin DOMAIN deps THEN DepsPanic(deps)
    ELSE IF asset_id \notin DOMAIN deps[account_id].assets THEN DepsPanic(deps)
    ELSE DepsResult([deps EXCEPT ![account_id].assets[asset_id] =
                                     @ \ Range(token_ids)])

assert_storage(deps, account_id, attached_deposit, covered) ==
    IF account_id \notin DOMAIN deps THEN DepsPanic(deps)
    ELSE IF Over128(Add(deps[account_id].near_balance, attached_deposit))
    THEN DepsPanic(deps)
    ELSE IF ~covered THEN DepsPanic(deps)
    ELSE DepsResult([deps EXCEPT ![account_id].near_balance =
                                     Add(@, attached_deposit)])

\* A receipt the contract has dispatched and whose callback has not run yet.
NftTransfer(receiver_id, asset_id, token_id) ==
    [kind |-> "nft_transfer", receiver_id |-> receiver_id, asset_id |-> asset_id,
     token_id |-> token_id, pool_id |-> 0, sender_id |-> NONE, amount |-> <<>>]

LpOnTransfer(pool_id, sender_id, receiver_id, amount) ==
    [kind |-> "lp_on_transfer", receiver_id |-> receiver_id, asset_id |-> NONE,
     token_id |-> NONE, pool_id |-> pool_id, sender_id |-> sender_id,
     amount |-> amount]

Dispatch(bag, receipt) ==
    [r \in DOMAIN bag \cup {receipt} |->
        (IF r \in DOMAIN bag THEN bag[r] ELSE 0) + (IF r = receipt THEN 1 ELSE 0)]

Resolve(bag, receipt) ==
    [r \in {q \in DOMAIN bag : q # receipt \/ bag[q] > 1} |->
        IF r = receipt THEN bag[r] - 1 ELSE bag[r]]

\* transfer_nfts with a loop that returns after its first round: one
\* nft_transfer is dispatched, for the first id.
transfer_nfts_first_only(bag, receiver_id, asset_id, token_ids) ==
    IF token_ids = <<>> THEN bag
    ELSE Dispatch(bag, NftTransfer(receiver_id, asset_id, Head(token_ids)))

RECURSIVE transfer_nfts(_, _, _, _)
transfer_nfts(bag, receiver_id, asset_id, token_ids) ==
    IF token_ids = <<>> THEN bag
    ELSE transfer_nfts(Dispatch(bag, NftTransfer(receiver_id, asset_id, Head(token_ids))),
                       receiver_id, asset_id, Tail(token_ids))


(***************************************************************************)
(* The inputs of the calls.                                                *)
(***************************************************************************)
MaxPools == 2
MaxCalls == 5
TickMs == 1000
MaxTimeMs == 1000

Accounts == {"alice", "bob"}
Assets == {"nft"}
Tokens == {"t1", "t2"}
TokenLists == {<<>>, <<"t1">>, <<"t2">>, <<"t1", "t2">>}
PoolIds == 0 .. MaxPools - 1
OneYocto == <<1>>
LinearSpot == <<10>>
LinearDelta == <<2>>
TenthWAD == <<0, 0, 0, 0, 10>>
SteepDelta == <<0, 0, 0, 0, 0, 0, 0, 0, 0, 2>>

\* env::storage_byte_cost(): 10^19 yocto for one byte.
storage_byte_cost == <<0, 0, 0, 0, 1000>>

\* storage_balance_bounds_for_account().min: the bytes that
\* measure_storage_usage counts at construction for one account entry (548)
\* and for one staged token (1627), times env::storage_byte_cost().
StorageMin == Mul(Add(N(548), N(1627)), storage_byte_cost)

\* The coin price of the bytes of one new lp_balances entry: 198 bytes and
\* two for each character of the account id.
LpEntryNear(account_id) ==
    LET chars == CASE account_id = "alice" -> 5
                   [] account_id = "bob" -> 3
                   [] OTHER -> 0
    IN  Mul(N(198 + 2 * chars), storage_byte_cost)

PoolConfig(pool_type, bonding_curve, spot_price, delta, fee, recipient, locked_til) ==
    [pool_type |-> pool_type, bonding_curve |-> bonding_curve,
     spot_price |-> spot_price, delta |-> delta, fee |-> fee,
     recipient |-> recipient, locked_til |-> locked_til]

\* The create_pair calls made: the arguments that pass Pair::new with the
\* deposits that go with them, and one call for each way Pair::new or the u8
\* conversions refuse the arguments.
Creation(config, initial_token_ids, attached_deposit) ==
    [config |-> config, initial_token_ids |-> initial_token_ids,
     attached_deposit |-> attached_deposit]

Creations ==
    {Creation(PoolConfig(2, 0, LinearSpot, LinearDelta, TenthWAD, NONE, 0), ids, <<40>>) : ids \in {<<>>, <<"t1">>, <<"t1", "t2">>}}
    \cup {Creation(PoolConfig(2, 0, LinearSpot, LinearDelta, <<>>, NONE, 0), <<"t1", "t2">>, a) : a \in {<<>>, <<40>>}}
    \cup {Creation(PoolConfig(0, 0, LinearSpot, LinearDelta, <<>>, "bob", 1), ids, <<40>>) : ids \in {<<>>, <<"t1">>}}
    \cup {Creation(PoolConfig(1, 0, LinearSpot, LinearDelta, <<>>, "alice", 0), <<"t1", "t2">>, <<>>)}
    \cup {Creation(PoolConfig(0, 0, LinearSpot, LinearDelta, <<>>, "bob", 0), <<>>, a) : a \in {<<5>>, <<10>>}}
    \cup {Creation(PoolConfig(2, 1, MIN_PRICE, d, <<>>, NONE, 0), <<"t1">>, Mul(N(4), MIN_PRICE)) : d \in {WAD, Add(WAD, WAD), SteepDelta}}
    \cup {Creation(PoolConfig(0, 1, p, Add(WAD, WAD), <<>>, "bob", 0), <<>>, Mul(N(4), MIN_PRICE)) : p \in {MIN_PRICE, WAD}}
    \cup {Creation(PoolConfig(0, 0, LinearSpot, LinearDelta, TenthWAD, "bob", 0), <<>>, <<>>),
          Creation(PoolConfig(0, 0, LinearSpot, LinearDelta, <<>>, NONE, 0), <<>>, <<>>),
          Creation(PoolConfig(2, 0, LinearSpot, LinearDelta, MAX_FEE, NONE, 0), <<>>, <<>>),
          Creation(PoolConfig(2, 0, LinearSpot, LinearDelta, <<>>, "bob", 0), <<>>, <<>>),
          Creation(PoolConfig(3, 0, LinearSpot, LinearDelta, <<>>, NONE, 0), <<>>, <<>>),
          Creation(PoolConfig(2, 2, LinearSpot, LinearDelta, <<>>, NONE, 0), <<>>, <<>>)}

LiquidityDeposits == {<<>>, <<40>>}

VARIABLES pools, protocol_fee_credit, protocol_fee_multiplier, account_deposits, block_timestamp_ms, nft_owner, promises, last, calls, hops, inserted, quoted

vars == <<pools, protocol_fee_credit, protocol_fee_multiplier, account_deposits, block_timestamp_ms, nft_owner, promises, last, calls, hops, inserted, quoted>>

\* What the last call was and what it handed to its caller: ok is FALSE when
\* the call aborted, transfer the coin of Promise::new(caller).transfer.
\* promise_result is env::promise_result(0) as a callback read it (for a
\* call that is no callback its kind is NONE): Failed, or Successful with a
\* value, which is a U128 (Value, the number in unused) or not (Unparsed).
\* returned is the value a call answers its caller with, where a contract
\* that called acts on it (NONE elsewhere).
Call(op, ok, caller, pool_id, transfer, unbacked) ==
    [op |-> op, ok |-> ok, caller |-> caller, pool_id |-> pool_id,
     transfer |-> transfer, unbacked |-> unbacked,
     promise_result |-> [kind |-> NONE, unused |-> <<>>],
     returned |-> NONE]

\* quoted before any quote was asked for.
NoQuote ==
    [kind |-> NONE, curve |-> NONE, spot_price |-> <<>>, delta |-> <<>>,
     num_items |-> 0, fee_multiplier |-> <<>>, protocol_fee_multiplier |-> <<>>,
     info |-> BuyPanic]

\* An aborted call leaves the contract, and the record of the last call that
\* went through, as they were.
Abort == UNCHANGED <<pools, protocol_fee_credit, protocol_fee_multiplier, account_deposits, nft_owner, promises, last, calls, hops, inserted, quoted>>

\* A call that went through is counted; hops is what each action of a swap
\* returned and did to its pool, in the order of the actions, and is empty
\* after any other call.  inserted is a history of SpecInventory below and
\* quoted one of SpecCurve; the calls of the contract touch neither.
Done == calls' = calls + 1 /\ hops' = <<>> /\ inserted' = inserted /\ quoted' = quoted

PoolAt(pool_id) == pools[pool_id + 1]

HasPool(pool_id) == pool_id + 1 \in DOMAIN pools

\* Contract::new, the protocol fee multiplier it stores: the one given, or
\* 10^17.
Contract_new(given) == IF given.some THEN given.v ELSE TenthWAD

Init ==
    /\ pools = <<>>
    /\ protocol_fee_credit = <<>>
    /\ protocol_fee_multiplier \in {Contract_new(given) : given \in {None}}
    /\ account_deposits = <<>>
    /\ block_timestamp_ms = 0
    /\ nft_owner = [t \in Tokens |-> "alice"]
    /\ promises = <<>>
    /\ last = Call("new", TRUE, NONE, 0, <<>>, {})
    /\ calls = 0
    /\ hops = <<>>
    /\ inserted = <<>>
    /\ quoted = NoQuote

Tick ==
    /\ block_timestamp_ms < MaxTimeMs
    /\ block_timestamp_ms' = block_timestamp_ms + TickMs
    /\ UNCHANGED <<pools, protocol_fee_credit, protocol_fee_multiplier,
                   account_deposits, nft_owner, promises, last, calls, hops,
                   inserted, quoted>>

internal_register_account(deps, account_id, amount, covered) ==
    LET present == IF account_id \in DOMAIN deps THEN deps
                   ELSE Put(deps, account_id, NewAccountDeposit)
    IN  IF Over128(Add(present[account_id].near_balance, amount))
        THEN DepsPanic(deps)
        ELSE assert_storage([present EXCEPT ![account_id].near_balance =
                                                Add(@, amount)],
                            account_id, <<>>, covered)

storage_deposit(predecessor, account_id, attached_deposit, covered) ==
    LET target == IF account_id = NONE THEN predecessor ELSE account_id
        r == internal_register_account(account_deposits, target,
                                       attached_deposit, covered)
    IN  /\ calls < MaxCalls
        /\ UNCHANGED block_timestamp_ms
        /\ IF Lt(attached_deposit, StorageMin) \/ r.panic
           THEN Abort
           ELSE /\ account_deposits' = r.deps
                /\ Done
                /\ last' = Call("storage_deposit", TRUE, predecessor, 0, <<>>, {})
                /\ UNCHANGED <<pools, protocol_fee_credit, protocol_fee_multiplier,
                               nft_owner, promises>>

\* The call of an asset contract (the predecessor) in a transfer of token_id
\* to this contract.  The token is staged for whichever account the call
\* names as the previous owner, and the call answers Value(true): the asset
\* contract is told to give the token back, so the owner it records is the
\* one it recorded before the transfer.
nft_on_transfer(asset_id, previous_owner_id, token_id, covered) ==
    LET d == internal_deposit_nft(account_deposits, previous_owner_id,
                                  asset_id, token_id)
        r == IF d.panic THEN d
             ELSE assert_storage(d.deps, previous_owner_id, <<>>, covered)
    IN  /\ calls < MaxCalls
        /\ UNCHANGED block_timestamp_ms
        /\ IF r.panic
           THEN Abort
           ELSE /\ account_deposits' = r.deps
                /\ Done
                /\ last' = [Call("nft_on_transfer", TRUE, previous_owner_id, 0,
                                 <<>>, {})
                               EXCEPT !.returned = "true"]
                /\ UNCHANGED <<pools, protocol_fee_credit, protocol_fee_multiplier,
                               nft_owner, promises>>

create_pair(predecessor, config, asset_id, initial_token_ids, attached_deposit, covered) ==
    LET pool_id  == Len(pools)
        pool_type == PoolType_from(config.pool_type)
        curve    == BondingCurve_from(config.bonding_curve)
        new_pair == Pair_new(curve, pool_type, asset_id, config.spot_price,
                             config.delta, config.fee, predecessor,
                             config.recipient, <<>>, config.locked_til)
        known    == IF config.recipient # NONE
                       /\ config.recipient \notin DOMAIN account_deposits
                    THEN Put(account_deposits, config.recipient, NewAccountDeposit)
                    ELSE account_deposits
        w        == internal_withdraw_nft(known, predecessor, asset_id,
                                          initial_token_ids)
        m        == deposit_and_mint_lp(
                        internal_register_account_lp(new_pair.pair, predecessor),
                        predecessor, predecessor, initial_token_ids,
                        attached_deposit)
        r        == assert_storage(w.deps, predecessor, <<>>, covered)
    IN  /\ calls < MaxCalls
        /\ Len(pools) < MaxPools
        /\ UNCHANGED block_timestamp_ms
        /\ IF \/ pool_type = "panic" \/ curve = "panic"
              \/ w.panic \/ r.panic \/ new_pair.panic \/ m.panic
           THEN Abort
           ELSE /\ pools' = Append(pools, m.pair)
                /\ account_deposits' = r.deps
                /\ Done
                /\ last' = Call("create_pair", TRUE, predecessor, pool_id, <<>>, {})
                /\ UNCHANGED <<protocol_fee_credit, protocol_fee_multiplier,
                               nft_owner, promises>>

add_liquidity(predecessor, pool_id, token_ids, attached_deposit, covered) ==
    LET m == deposit_and_mint_lp(PoolAt(pool_id), predecessor, predecessor,
                                 token_ids, attached_deposit)
        r == assert_storage(account_deposits, predecessor, <<>>, covered)
    IN  /\ calls < MaxCalls
        /\ UNCHANGED block_timestamp_ms
        /\ IF ~HasPool(pool_id) THEN Abort
           ELSE IF r.panic \/ m.panic
           THEN Abort
           ELSE /\ pools' = [pools EXCEPT ![pool_id + 1] = m.pair]
                /\ account_deposits' = r.deps
                /\ Done
                /\ last' = Call("add_liquidity", TRUE, predecessor, pool_id, <<>>, {})
                /\ UNCHANGED <<protocol_fee_credit, protocol_fee_multiplier,
                               nft_owner, promises>>


remove_liquidity(predecessor, pool_id, lp, attached_deposit) ==
    /\ calls < MaxCalls
    /\ UNCHANGED block_timestamp_ms
    /\ IF attached_deposit # OneYocto \/ ~HasPool(pool_id)
       THEN Abort
       ELSE \E b \in {burn_lp(PoolAt(pool_id), predecessor, lp,
                              protocol_fee_multiplier)} :
              IF b.panic \/ Over128(Add(protocol_fee_credit, b.protocol_fee))
              THEN Abort
              ELSE /\ pools' = [pools EXCEPT ![pool_id + 1] = b.pair]
                   /\ protocol_fee_credit' = Add(protocol_fee_credit, b.protocol_fee)
                   /\ promises' = transfer_nfts(promises, predecessor,
                                                PoolAt(pool_id).nft_token,
                                                b.token_ids)
                   /\ Done
                   /\ last' = Call("remove_liquidity", TRUE, predecessor, pool_id,
                                   b.amount, {})
                   /\ UNCHANGED <<protocol_fee_multiplier, account_deposits,
                                  nft_owner>>

\* The coin sent to the caller is the amount asked for; what the pool's
\* withdraw_near returns is dropped.
withdraw_near(predecessor, pool_id, near_amount, attached_deposit, covered) ==
    LET w == Pair_withdraw_near(PoolAt(pool_id), predecessor, block_timestamp_ms,
                                near_amount)
        r == assert_storage(account_deposits, predecessor, attached_deposit, covered)
    IN  /\ calls < MaxCalls
        /\ UNCHANGED block_timestamp_ms
        /\ IF ~HasPool(pool_id) THEN Abort
           ELSE IF r.panic \/ w.panic
           THEN Abort
           ELSE /\ pools' = [pools EXCEPT ![pool_id + 1] = w.pair]
                /\ account_deposits' = r.deps
                /\ Done
                /\ last' = Call("withdraw_near", TRUE, predecessor, pool_id,
                                near_amount, {})
                /\ UNCHANGED <<protocol_fee_credit, protocol_fee_multiplier,
                               nft_owner, promises>>

withdraw_nfts(predecessor, pool_id, token_ids, attached_deposit, covered) ==
    LET w == Pair_withdraw_nfts(PoolAt(pool_id), predecessor, block_timestamp_ms,
                                token_ids)
        r == assert_storage(account_deposits, predecessor, attached_deposit, covered)
    IN  /\ calls < MaxCalls
        /\ UNCHANGED block_timestamp_ms
        /\ IF ~HasPool(pool_id) THEN Abort
           ELSE IF r.panic \/ w.panic
           THEN Abort
           ELSE /\ pools' = [pools EXCEPT ![pool_id + 1] = w.pair]
                /\ account_deposits' = r.deps
                /\ promises' = transfer_nfts(promises, predecessor,
                                             PoolAt(pool_id).nft_token, token_ids)
                /\ Done
                /\ last' = Call("withdraw_nfts", TRUE, predecessor, pool_id, <<>>, {})
                /\ UNCHANGED <<protocol_fee_credit, protocol_fee_multiplier, nft_owner>>

withdraw_nfts_from_deposit(predecessor, asset_id, token_ids, attached_deposit) ==
    LET w == internal_withdraw_nft(account_deposits, predecessor, asset_id, token_ids)
    IN  /\ calls < MaxCalls
        /\ UNCHANGED block_timestamp_ms
        /\ IF Lt(attached_deposit, N(Len(token_ids))) \/ w.panic
           THEN Abort
           ELSE /\ account_deposits' = w.deps
                /\ promises' = transfer_nfts(promises, predecessor, asset_id, token_ids)
                /\ Done
                /\ last' = Call("withdraw_nfts_from_deposit", TRUE, predecessor, 0,
                                <<>>, {})
                /\ UNCHANGED <<pools, protocol_fee_credit, protocol_fee_multiplier,
                               nft_owner>>

lp_register(predecessor, pool_id, account_id, attached_deposit) ==
    LET pool      == PoolAt(pool_id)
        used_near == IF account_id \in DOMAIN pool.lp_balances THEN <<>>
                     ELSE LpEntryNear(account_id)
    IN  /\ calls < MaxCalls
        /\ UNCHANGED block_timestamp_ms
        /\ IF ~HasPool(pool_id) THEN Abort
           ELSE IF Lt(attached_deposit, used_near)
           THEN Abort
           ELSE /\ pools' = [pools EXCEPT ![pool_id + 1] =
                                internal_register_account_lp(pool, account_id)]
                /\ Done
                /\ last' = Call("lp_register", TRUE, predecessor, pool_id,
                                Sub(attached_deposit, used_near), {})
                /\ UNCHANGED <<protocol_fee_credit, protocol_fee_multiplier,
                               account_deposits, nft_owner, promises>>

\* internal_lp_transfer without the test that the receiver is another account.
internal_lp_transfer_to_self(pool_list, pool_id, sender_id, receiver_id, amount) ==
    IF pool_id + 1 \notin DOMAIN pool_list
    THEN [panic |-> TRUE, pools |-> pool_list]
    ELSE LET t == Pair_lp_transfer(pool_list[pool_id + 1], sender_id, receiver_id,
                                   amount)
         IN  IF t.panic THEN [panic |-> TRUE, pools |-> pool_list]
             ELSE [panic |-> FALSE,
                   pools |-> [pool_list EXCEPT ![pool_id + 1] = t.pair]]


internal_lp_transfer(pool_list, pool_id, sender_id, receiver_id, amount) ==
    IF sender_id = receiver_id THEN [panic |-> TRUE, pools |-> pool_list]
    ELSE IF pool_id + 1 \notin DOMAIN pool_list
    THEN [panic |-> TRUE, pools |-> pool_list]
    ELSE LET t == Pair_lp_transfer(pool_list[pool_id + 1], sender_id, receiver_id,
                                   amount)
         IN  IF t.panic THEN [panic |-> TRUE, pools |-> pool_list]
             ELSE [panic |-> FALSE,
                   pools |-> [pool_list EXCEPT ![pool_id + 1] = t.pair]]

lp_transfer(predecessor, pool_id, receiver_id, amount, attached_deposit) ==
    LET t == internal_lp_transfer(pools, pool_id, predecessor, receiver_id, amount)
    IN  /\ calls < MaxCalls
        /\ UNCHANGED block_timestamp_ms
        /\ IF attached_deposit # OneYocto \/ t.panic
           THEN Abort
           ELSE /\ pools' = t.pools
                /\ Done
                /\ last' = Call("lp_transfer", TRUE, predecessor, pool_id, <<>>, {})
                /\ UNCHANGED <<protocol_fee_credit, protocol_fee_multiplier,
                               account_deposits, nft_owner, promises>>

lp_transfer_call(predecessor, pool_id, receiver_id, amount, attached_deposit) ==
    LET t == internal_lp_transfer(pools, pool_id, predecessor, receiver_id, amount)
    IN  /\ calls < MaxCalls
        /\ UNCHANGED block_timestamp_ms
        /\ IF attached_deposit # OneYocto \/ t.panic
           THEN Abort
           ELSE /\ pools' = t.pools
                /\ promises' = Dispatch(promises,
                                   LpOnTransfer(pool_id, predecessor, receiver_id, amount))
                /\ Done
                /\ last' = Call("lp_transfer_call", TRUE, predecessor, pool_id,
                                <<>>, {})
                /\ UNCHANGED <<protocol_fee_credit, protocol_fee_multiplier,
                               account_deposits, nft_owner>>

\* lp_resolve_transfer without the std::cmp::min of its line 160: the refund
\* asked of the receiver is the whole unused amount.
lp_resolve_transfer_uncapped(receipt, outcome) ==
    LET amount        == receipt.amount
        unused_amount == IF outcome.kind \in {"Failed", "Unparsed"} THEN amount
                         ELSE Min(amount, outcome.unused)
        pool          == PoolAt(receipt.pool_id)
        receiver_balance == IF receipt.receiver_id \in DOMAIN pool.lp_balances
                            THEN pool.lp_balances[receipt.receiver_id] ELSE <<>>
        refund_amount == unused_amount
        t == internal_lp_transfer(pools, receipt.pool_id, receipt.receiver_id,
                                  receipt.sender_id, refund_amount)
    IN  /\ receipt \in DOMAIN promises
        /\ receipt.kind = "lp_on_transfer"
        /\ promises' = Resolve(promises, receipt)
        /\ UNCHANGED <<protocol_fee_credit, protocol_fee_multiplier,
                       account_deposits, nft_owner, block_timestamp_ms, calls>>
        /\ hops' = <<>>
        /\ inserted' = inserted /\ quoted' = quoted
        /\ IF unused_amount # <<>> /\ receiver_balance # <<>>
           THEN /\ pools' = t.pools
                /\ last' = [Call("lp_resolve_transfer", ~t.panic, receipt.sender_id,
                                 receipt.pool_id, <<>>, {})
                               EXCEPT !.promise_result = outcome]
           ELSE /\ pools' = pools
                /\ last' = [Call("lp_resolve_transfer", TRUE, receipt.sender_id,
                                 receipt.pool_id, <<>>, {})
                               EXCEPT !.promise_result = outcome]

\* The callback of lp_transfer_call.  outcome is the result of the receiver's
\* lp_on_transfer: it failed, it returned a value that is no U128, or it
\* returned the unused amount.
lp_resolve_transfer(receipt, outcome) ==
    LET amount        == receipt.amount
        unused_amount == IF outcome.kind \in {"Failed", "Unparsed"} THEN amount
                         ELSE Min(amount, outcome.unused)
        pool          == PoolAt(receipt.pool_id)
        receiver_balance == IF receipt.receiver_id \in DOMAIN pool.lp_balances
                            THEN pool.lp_balances[receipt.receiver_id] ELSE <<>>
        refund_amount == Min(receiver_balance, unused_amount)
        t == internal_lp_transfer(pools, receipt.pool_id, receipt.receiver_id,
                                  receipt.sender_id, refund_amount)
    IN  /\ receipt \in DOMAIN promises
        /\ receipt.kind = "lp_on_transfer"
        /\ promises' = Resolve(promises, receipt)
        /\ UNCHANGED <<protocol_fee_credit, protocol_fee_multiplier,
                       account_deposits, nft_owner, block_timestamp_ms, calls>>
        /\ hops' = <<>>
        /\ inserted' = inserted /\ quoted' = quoted
        /\ IF unused_amount # <<>> /\ receiver_balance # <<>>
           THEN /\ pools' = t.pools
                /\ last' = [Call("lp_resolve_transfer", ~t.panic, receipt.sender_id,
                                 receipt.pool_id, <<>>, {})
                               EXCEPT !.promise_result = outcome]
           ELSE /\ pools' = pools
                /\ last' = [Call("lp_resolve_transfer", TRUE, receipt.sender_id,
                                 receipt.pool_id, <<>>, {})
                               EXCEPT !.promise_result = outcome]

\* The callback of one dispatched nft_transfer.  Whether the transfer went
\* through is the asset contract's matter: the callback reads the outcome in
\* env::promise_result(0).
nft_transfer_resolve(receipt, succeeded) ==
    LET d == internal_deposit_nft(account_deposits, receipt.receiver_id,
                                  receipt.asset_id, receipt.token_id)
    IN  /\ receipt \in DOMAIN promises
        /\ receipt.kind = "nft_transfer"
        /\ promises' = Resolve(promises, receipt)
        /\ UNCHANGED <<pools, protocol_fee_credit, protocol_fee_multiplier,
                       block_timestamp_ms, calls>>
        /\ hops' = <<>>
        /\ inserted' = inserted /\ quoted' = quoted
        /\ IF succeeded
           THEN /\ nft_owner' = [nft_owner EXCEPT ![receipt.token_id] =
                                                      receipt.receiver_id]
                /\ account_deposits' = account_deposits
                /\ last' = [Call("nft_transfer_resolve", TRUE, receipt.receiver_id,
                                 0, <<>>, {})
                               EXCEPT !.promise_result.kind = "Unparsed"]
           ELSE /\ nft_owner' = nft_owner
                /\ account_deposits' = d.deps
                /\ last' = [Call("nft_transfer_resolve", ~d.panic,
                                 receipt.receiver_id, 0, <<>>, {})
                               EXCEPT !.promise_result.kind = "Failed"]


(***************************************************************************)
(* swap.  The contract during a swap is the record [pools, credit, deps];  *)
(* cached is cached_token_ids, a function from the asset ids that have an  *)
(* entry to the set of token ids in flight.  hash_order lists the token    *)
(* ids in the order a HashSet happens to iterate them.                     *)
(***************************************************************************)
Action(pool_id, swap_type, min_output_near, input_token_ids, output_token_ids, num_out_nfts) ==
    [pool_id |-> pool_id, swap_type |-> swap_type,
     min_output_near |-> min_output_near, input_token_ids |-> input_token_ids,
     output_token_ids |-> output_token_ids, num_out_nfts |-> num_out_nfts]

SwapState(c, cached, remain, unbacked, trail) ==
    [panic |-> FALSE, c |-> c, cached |-> cached, remain |-> remain,
     unbacked |-> unbacked, trail |-> trail]

SwapPanic(c, cached) ==
    [panic |-> TRUE, c |-> c, cached |-> cached, remain |-> <<>>, unbacked |-> {},
     trail |-> <<>>]

\* One action of a swap as the caller of internal_swap_with_action sees it:
\* the action, the pool before and after, input_near_value, and the pair
\* (protocol_fee, amount) and the token ids that the Pair method returned.
HopRecord(action, before, r, input_near_value) ==
    [action |-> action,
     swap_type |-> SwapType_from(action.swap_type), pool_id |-> action.pool_id,
     min_output_near |-> IF action.min_output_near.some
                         THEN action.min_output_near.v ELSE <<>>,
     before |-> before, after |-> r.pair, token_ids |-> r.token_ids,
     protocol_fee |-> r.protocol_fee, amount |-> r.amount,
     input_near_value |-> input_near_value]

RECURSIVE VecFromSet(_, _)
VecFromSet(set, hash_order) ==
    IF hash_order = <<>> THEN <<>>
    ELSE IF Head(hash_order) \in set
    THEN <<Head(hash_order)>> \o VecFromSet(set, Tail(hash_order))
    ELSE VecFromSet(set, Tail(hash_order))

\* TakeFromCache without lines 128-130 of swap.rs: an id in flight that is
\* sold stays in the set.
RECURSIVE TakeFromCache_kept(_, _, _, _)
TakeFromCache_kept(nft_ids, cached, nft_token, remain_token_ids_to_withdraw) ==
    IF nft_ids = <<>>
    THEN [cached |-> cached, remain |-> remain_token_ids_to_withdraw]
    ELSE IF nft_token \notin DOMAIN cached
    THEN TakeFromCache_kept(Tail(nft_ids), cached, nft_token,
                       Append(remain_token_ids_to_withdraw, Head(nft_ids)))
    ELSE IF Head(nft_ids) \notin cached[nft_token]
    THEN TakeFromCache_kept(Tail(nft_ids), cached, nft_token,
                       Append(remain_token_ids_to_withdraw, Head(nft_ids)))
    ELSE TakeFromCache_kept(Tail(nft_ids), cached, nft_token,
                            remain_token_ids_to_withdraw)

\* The loop over nft_ids: an id in flight is taken out of the set, any
\* other id is left to be withdrawn from the caller's staging area.
RECURSIVE TakeFromCache(_, _, _, _)
TakeFromCache(nft_ids, cached, nft_token, remain_token_ids_to_withdraw) ==
    IF nft_ids = <<>>
    THEN [cached |-> cached, remain |-> remain_token_ids_to_withdraw]
    ELSE IF nft_token \notin DOMAIN cached
    THEN TakeFromCache(Tail(nft_ids), cached, nft_token,
                       Append(remain_token_ids_to_withdraw, Head(nft_ids)))
    ELSE IF Head(nft_ids) \notin cached[nft_token]
    THEN TakeFromCache(Tail(nft_ids), cached, nft_token,
                       Append(remain_token_ids_to_withdraw, Head(nft_ids)))
    ELSE TakeFromCache(Tail(nft_ids),
                       Put(cached, nft_token, cached[nft_token] \ {Head(nft_ids)}),
                       nft_token, remain_token_ids_to_withdraw)

Staged(deps, account_id, asset_id) ==
    IF account_id \in DOMAIN deps /\ asset_id \in DOMAIN deps[account_id].assets
    THEN deps[account_id].assets[asset_id] ELSE {}

swap_NFTToNear(c, account_id, action, cached, input_near_value, pfm, hash_order) ==
    LET pool      == c.pools[action.pool_id + 1]
        nft_token == pool.nft_token
        nft_ids   == IF action.input_token_ids = <<>>
                     THEN VecFromSet(cached[nft_token], hash_order)
                     ELSE action.input_token_ids
        Settle(taken, placed, sold) ==
            IF sold.panic \/ placed.panic THEN SwapPanic(c, cached)
            ELSE IF Over128(Add(input_near_value, sold.amount))
                    \/ Over128(Add(c.credit, sold.protocol_fee))
            THEN SwapPanic(c, cached)
            ELSE SwapState([pools |-> [c.pools EXCEPT ![action.pool_id + 1] = sold.pair],
                            credit |-> Add(c.credit, sold.protocol_fee),
                            deps |-> placed.deps],
                           taken.cached, Add(input_near_value, sold.amount),
                           Range(taken.remain) \ Staged(c.deps, account_id, nft_token),
                           <<HopRecord(action, pool, sold, input_near_value)>>)
        Sell(taken, w) ==
            IF w.panic \/ ~action.min_output_near.some THEN SwapPanic(c, cached)
            ELSE Settle(taken,
                        IF pool.asset_recipient # NONE
                        THEN DepositEach(w.deps, pool.asset_recipient, nft_token,
                                         nft_ids)
                        ELSE w,
                        swap_nfts_for_near(pool, account_id, nft_ids,
                                           action.min_output_near.v, pfm))
        Withdraw(taken) ==
            Sell(taken, internal_withdraw_nft(c.deps, account_id, nft_token,
                                              taken.remain))
    IN  IF action.input_token_ids = <<>> /\ nft_token \notin DOMAIN cached
        THEN SwapPanic(c, cached)
        ELSE Withdraw(TakeFromCache(nft_ids, cached, nft_token, <<>>))

\* Both buys are budgeted by env::attached_deposit().
internal_swap_near_for_nfts(pool, attached_deposit, nft_ids, num_nfts, pfm) ==
    IF ~nft_ids.some
    THEN swap_near_for_any_nfts(pool, attached_deposit, num_nfts, pfm)
    ELSE IF num_nfts # Len(nft_ids.v) THEN PairPanic(pool)
    ELSE swap_near_for_specific_nfts(pool, attached_deposit, nft_ids.v, pfm)

swap_NearToNFT(c, action, cached, input_near_value, attached_deposit, pfm) ==
    LET pool      == c.pools[action.pool_id + 1]
        nft_token == pool.nft_token
        nft_ids   == IF Len(action.output_token_ids) > 0
                     THEN Some(action.output_token_ids) ELSE None
        Hold(bought, deps) ==
            IF Over128(Add(c.credit, bought.protocol_fee))
            THEN SwapPanic(c, cached)
            ELSE IF Lt(input_near_value, bought.amount) THEN SwapPanic(c, cached)
            ELSE SwapState([pools |-> [c.pools EXCEPT ![action.pool_id + 1] = bought.pair],
                            credit |-> Add(c.credit, bought.protocol_fee),
                            deps |-> deps],
                           Put(cached, nft_token,
                               (IF nft_token \in DOMAIN cached
                                THEN cached[nft_token] ELSE {})
                               \cup Range(bought.token_ids)),
                           Sub(input_near_value, bought.amount), {},
                           <<HopRecord(action, pool, bought, input_near_value)>>)
        Income(bought, recipient) ==
            IF recipient = NONE THEN Hold(bought, c.deps)
            ELSE IF recipient \notin DOMAIN c.deps THEN SwapPanic(c, cached)
            ELSE IF Lt(bought.amount, bought.protocol_fee) THEN SwapPanic(c, cached)
            ELSE IF Over128(Add(c.deps[recipient].near_balance,
                                Sub(bought.amount, bought.protocol_fee)))
            THEN SwapPanic(c, cached)
            ELSE Hold(bought,
                      [c.deps EXCEPT ![recipient].near_balance =
                           Add(@, Sub(bought.amount, bought.protocol_fee))])
        Buy(bought) ==
            IF bought.panic THEN SwapPanic(c, cached)
            ELSE Income(bought, bought.pair.asset_recipient)
    IN  IF ~action.num_out_nfts.some THEN SwapPanic(c, cached)
        ELSE IF Len(action.output_token_ids) > 0
                /\ Len(action.output_token_ids) # action.num_out_nfts.v
        THEN SwapPanic(c, cached)
        ELSE Buy(internal_swap_near_for_nfts(pool, attached_deposit, nft_ids,
                                             action.num_out_nfts.v, pfm))

internal_swap_with_action(c, account_id, action, cached, input_near_value, attached_deposit, pfm, hash_order) ==
    IF action.pool_id + 1 \notin DOMAIN c.pools THEN SwapPanic(c, cached)
    ELSE CASE SwapType_from(action.swap_type) = "NFTToNear" ->
                swap_NFTToNear(c, account_id, action, cached, input_near_value,
                               pfm, hash_order)
           [] SwapType_from(action.swap_type) = "NearToNFT" ->
                swap_NearToNFT(c, action, cached, input_near_value,
                               attached_deposit, pfm)
           [] OTHER -> SwapPanic(c, cached)


RECURSIVE SwapEach(_, _, _, _, _, _)
SwapEach(st, account_id, actions, attached_deposit, pfm, hash_order) ==
    LET Hop(hop) == [hop EXCEPT !.unbacked = st.unbacked \cup hop.unbacked,
                                !.trail = st.trail \o hop.trail]
    IN  IF st.panic \/ actions = <<>> THEN st
        ELSE SwapEach(Hop(internal_swap_with_action(st.c, account_id,
                              Head(actions), st.cached, st.remain,
                              attached_deposit, pfm, hash_order)),
                      account_id, Tail(actions), attached_deposit, pfm, hash_order)

RECURSIVE TransferCached(_, _, _, _, _)
TransferCached(bag, receiver_id, cached, assets, hash_order) ==
    IF assets = {} THEN bag
    ELSE LET nft_token == CHOOSE a \in assets : TRUE
         IN  TransferCached(
                 transfer_nfts(bag, receiver_id, nft_token,
                               VecFromSet(cached[nft_token], hash_order)),
                 receiver_id, cached, assets \ {nft_token}, hash_order)

\* swap with lines 157 and 174 of swap.rs dropped: the fees of the actions
\* are not added to protocol_fee_credit.
swap_fee_not_credited(predecessor, actions, attached_deposit, hash_order) ==
    /\ calls < MaxCalls
    /\ UNCHANGED block_timestamp_ms
    /\ IF actions = <<>> THEN Abort
       ELSE IF Head(actions).swap_type = 0 /\ Head(actions).input_token_ids = <<>>
       THEN Abort
       ELSE \E done \in {SwapEach(SwapState([pools |-> pools,
                                             credit |-> protocol_fee_credit,
                                             deps |-> account_deposits],
                                            <<>>, attached_deposit, {}, <<>>),
                                  predecessor, actions, attached_deposit,
                                  protocol_fee_multiplier, hash_order)} :
              IF done.panic THEN Abort
              ELSE /\ pools' = done.c.pools
                   /\ protocol_fee_credit' = protocol_fee_credit
                   /\ account_deposits' = done.c.deps
                   /\ promises' = TransferCached(promises, predecessor, done.cached,
                                                 DOMAIN done.cached, hash_order)
                   /\ calls' = calls + 1
                   /\ hops' = done.trail
                   /\ inserted' = inserted /\ quoted' = quoted
                   /\ last' = Call("swap", TRUE, predecessor,
                                   Head(actions).pool_id, done.remain, done.unbacked)
                   /\ UNCHANGED <<protocol_fee_multiplier, nft_owner>>

swap(predecessor, actions, attached_deposit, hash_order) ==
    /\ calls < MaxCalls
    /\ UNCHANGED block_timestamp_ms
    /\ IF actions = <<>> THEN Abort
       ELSE IF Head(actions).swap_type = 0 /\ Head(actions).input_token_ids = <<>>
       THEN Abort
       ELSE \E done \in {SwapEach(SwapState([pools |-> pools,
                                             credit |-> protocol_fee_credit,
                                             deps |-> account_deposits],
                                            <<>>, attached_deposit, {}, <<>>),
                                  predecessor, actions, attached_deposit,
                                  protocol_fee_multiplier, hash_order)} :
              IF done.panic THEN Abort
              ELSE /\ pools' = done.c.pools
                   /\ protocol_fee_credit' = done.c.credit
                   /\ account_deposits' = done.c.deps
                   /\ promises' = TransferCached(promises, predecessor, done.cached,
                                                 DOMAIN done.cached, hash_order)
                   /\ calls' = calls + 1
                   /\ hops' = done.trail
                   /\ inserted' = inserted /\ quoted' = quoted
                   /\ last' = Call("swap", TRUE, predecessor,
                                   Head(actions).pool_id, done.remain, done.unbacked)
                   /\ UNCHANGED <<protocol_fee_multiplier, nft_owner>>

(***************************************************************************)
(* The calls the model makes.                                              *)
(***************************************************************************)
StorageDeposits == {<<>>, OneYocto, StorageMin}
SmallDeposits == {<<>>, OneYocto}
LpEntryDeposits == {<<>>, LpEntryNear("bob"), LpEntryNear("alice")}
LpAmounts == {<<>>, <<20>>, <<40>>}
NearAmounts == {<<5>>, <<40>>, <<100>>}
HashOrders == {<<"t1", "t2">>, <<"t2", "t1">>}
Outcomes == {[kind |-> "Failed", unused |-> <<>>], [kind |-> "Unparsed", unused |-> <<>>], [kind |-> "Value", unused |-> <<>>], [kind |-> "Value", unused |-> <<20>>]}

\* The receipts a call can have dispatched.
NftReceipts == {NftTransfer(receiver_id, asset_id, token_id) : receiver_id \in Accounts, asset_id \in Assets, token_id \in Tokens}
LpReceipts == {LpOnTransfer(pool_id, sender_id, receiver_id, amount) : pool_id \in PoolIds, sender_id \in Accounts, receiver_id \in Accounts, amount \in LpAmounts}

SellHops ==
    {Action(0, 0, Some(<<>>), ids, <<>>, NoCount) : ids \in TokenLists}
    \cup {Action(0, 0, None, <<"t1">>, <<>>, NoCount),
          Action(0, 0, Some(<<6>>), <<"t1">>, <<>>, NoCount),
          Action(0, 0, Some(<<100>>), <<"t1">>, <<>>, NoCount)}

BuyHops ==
    {Action(0, 1, None, <<>>, <<>>, Some(n)) : n \in 0 .. 2}
    \cup {Action(0, 1, None, <<>>, ids, Some(1)) : ids \in TokenLists \ {<<>>}}
    \cup {Action(0, 1, None, <<>>, <<>>, NoCount)}

HandOver == {Action(0, 0, Some(<<>>), <<>>, <<>>, NoCount)}

ActionLists ==
    {<<>>, <<Action(MaxPools, 1, None, <<>>, <<>>, Some(1))>>,
     <<Action(0, 2, None, <<>>, <<>>, Some(1))>>}
    \cup {<<h>> : h \in SellHops \cup BuyHops}
    \cup {<<b, s>> : b \in {h \in BuyHops : h.num_out_nfts = Some(1) \/ h.num_out_nfts = Some(2)}, s \in HandOver \cup {Action(0, 0, Some(<<>>), <<"t1">>, <<>>, NoCount)}}
    \cup {<<s, b>> : s \in {Action(0, 0, Some(<<>>), ids, <<>>, NoCount) : ids \in {<<"t1">>, <<"t1", "t2">>}}, b \in {Action(0, 1, None, <<>>, <<>>, Some(1))}}
    \cup {<<Action(0, 1, None, <<>>, <<>>, Some(n)), Action(1, 0, Some(<<>>), ids, <<>>, NoCount)>> : n \in 1 .. 2, ids \in {<<>>, <<"t2">>}}

Next ==
    \/ Tick
    \/ \E predecessor \in Accounts, account_id \in Accounts \cup {NONE}, attached_deposit \in StorageDeposits, covered \in BOOLEAN :
          storage_deposit(predecessor, account_id, attached_deposit, covered)
    \/ \E asset_id \in Assets, previous_owner_id \in Accounts, token_id \in Tokens, covered \in BOOLEAN :
          nft_on_transfer(asset_id, previous_owner_id, token_id, covered)
    \/ \E predecessor \in Accounts, creation \in Creations, asset_id \in Assets, covered \in BOOLEAN :
          create_pair(predecessor, creation.config, asset_id, creation.initial_token_ids, creation.attached_deposit, covered)
    \/ \E predecessor \in Accounts, pool_id \in PoolIds, token_ids \in TokenLists, attached_deposit \in LiquidityDeposits, covered \in BOOLEAN :
          add_liquidity(predecessor, pool_id, token_ids, attached_deposit, covered)
    \/ \E predecessor \in Accounts, pool_id \in PoolIds, lp \in LpAmounts, attached_deposit \in SmallDeposits :
          remove_liquidity(predecessor, pool_id, lp, attached_deposit)
    \/ \E predecessor \in Accounts, pool_id \in PoolIds, near_amount \in NearAmounts, attached_deposit \in SmallDeposits, covered \in BOOLEAN :
          withdraw_near(predecessor, pool_id, near_amount, attached_deposit, covered)
    \/ \E predecessor \in Accounts, pool_id \in PoolIds, token_ids \in TokenLists, attached_deposit \in SmallDeposits, covered \in BOOLEAN :
          withdraw_nfts(predecessor, pool_id, token_ids, attached_deposit, covered)
    \/ \E predecessor \in Accounts, asset_id \in Assets, token_ids \in TokenLists, attached_deposit \in SmallDeposits :
          withdraw_nfts_from_deposit(predecessor, asset_id, token_ids, attached_deposit)
    \/ \E predecessor \in Accounts, actions \in ActionLists, attached_deposit \in LiquidityDeposits, hash_order \in HashOrders :
          swap(predecessor, actions, attached_deposit, hash_order)
    \/ \E predecessor \in Accounts, pool_id \in PoolIds, account_id \in Accounts, attached_deposit \in LpEntryDeposits :
          lp_register(predecessor, pool_id, account_id, attached_deposit)
    \/ \E predecessor \in Accounts, pool_id \in PoolIds, receiver_id \in Accounts, amount \in LpAmounts, attached_deposit \in SmallDeposits :
          lp_transfer(predecessor, pool_id, receiver_id, amount, attached_deposit)
    \/ \E predecessor \in Accounts, pool_id \in PoolIds, receiver_id \in Accounts, amount \in LpAmounts, attached_deposit \in SmallDeposits :
          lp_transfer_call(predecessor, pool_id, receiver_id, amount, attached_deposit)
    \/ \E receipt \in LpReceipts, outcome \in Outcomes :
          lp_resolve_transfer(receipt, outcome)
    \/ \E receipt \in NftReceipts, succeeded \in BOOLEAN :
          nft_transfer_resolve(receipt, succeeded)

Spec == Init /\ [][Next]_vars

(***************************************************************************)
(* The owner operations of Pair.  No entry point of the contract calls     *)
(* them; SpecPair adds them to the calls above, made on a pool of the      *)
(* registry by any account.                                                *)
(***************************************************************************)
SetterSpots == {LinearSpot, WAD}
SetterDeltas == {LinearDelta, WAD}
SetterFees == {<<>>, TenthWAD}
SetterRecipients == {NONE, "alice"}

OwnerCall(op, predecessor, pool_id, r) ==
    IF r.panic THEN Abort
    ELSE /\ pools' = [pools EXCEPT ![pool_id + 1] = r.pair]
         /\ Done
         /\ last' = Call(op, TRUE, predecessor, pool_id, <<>>, {})
         /\ UNCHANGED <<protocol_fee_credit, protocol_fee_multiplier,
                        account_deposits, nft_owner, promises>>

ChangeSpotPrice(predecessor, pool_id, new_spot_price) ==
    /\ calls < MaxCalls
    /\ HasPool(pool_id)
    /\ UNCHANGED block_timestamp_ms
    /\ OwnerCall("change_spot_price", predecessor, pool_id,
                 change_spot_price(PoolAt(pool_id), predecessor, new_spot_price))

ChangeDelta(predecessor, pool_id, new_delta) ==
    /\ calls < MaxCalls
    /\ HasPool(pool_id)
    /\ UNCHANGED block_timestamp_ms
    /\ OwnerCall("change_delta", predecessor, pool_id,
                 change_delta(PoolAt(pool_id), predecessor, new_delta))

ChangeFee(predecessor, pool_id, new_fee) ==
    /\ calls < MaxCalls
    /\ HasPool(pool_id)
    /\ UNCHANGED block_timestamp_ms
    /\ OwnerCall("change_fee", predecessor, pool_id,
                 change_fee(PoolAt(pool_id), predecessor, new_fee))

ChangeAssetRecipient(predecessor, pool_id, new_asset_recipient) ==
    /\ calls < MaxCalls
    /\ HasPool(pool_id)
    /\ UNCHANGED block_timestamp_ms
    /\ OwnerCall("change_asset_recipient", predecessor, pool_id,
                 change_asset_recipient(PoolAt(pool_id), predecessor,
                                        new_asset_recipient))

NextPair ==
    \/ Next
    \/ \E predecessor \in Accounts, pool_id \in PoolIds, new_spot_price \in SetterSpots :
          ChangeSpotPrice(predecessor, pool_id, new_spot_price)
    \/ \E predecessor \in Accounts, pool_id \in PoolIds, new_delta \in SetterDeltas :
          ChangeDelta(predecessor, pool_id, new_delta)
    \/ \E predecessor \in Accounts, pool_id \in PoolIds, new_fee \in SetterFees :
          ChangeFee(predecessor, pool_id, new_fee)
    \/ \E predecessor \in Accounts, pool_id \in PoolIds, new_asset_recipient \in SetterRecipients :
          ChangeAssetRecipient(predecessor, pool_id, new_asset_recipient)

SpecPair == Init /\ [][NextPair]_vars

(***************************************************************************)
(* The properties.  A call that went through is a step that counts it      *)
(* (calls' # calls); last' then says which call it was, who made it, on    *)
(* which pool, and the coin it sent back.                                  *)
(***************************************************************************)
RECURSIVE SumOver(_, _)
SumOver(balances, accounts) ==
    IF accounts = {} THEN <<>>
    ELSE LET a == CHOOSE x \in accounts : TRUE
         IN  Add(balances[a], SumOver(balances, accounts \ {a}))

\* C1: in every reachable state, every pool's lp_supply is the sum of the
\* entries of its lp_balances.
C1_LpSupplyIsSum ==
    \A i \in DOMAIN pools :
        pools[i].lp_supply = SumOver(pools[i].lp_balances, DOMAIN pools[i].lp_balances)

\* An lp_transfer has gone through and the pool has two holders of shares.
C1_Witness ==
    /\ last.op = "lp_transfer"
    /\ \E i \in DOMAIN pools :
          /\ pools[i].lp_supply # <<>>
          /\ Cardinality({a \in DOMAIN pools[i].lp_balances :
                              pools[i].lp_balances[a] # <<>>}) = 2

\* C2: in every reachable state a token id of an asset is recorded in at
\* most one place among the pools' inventories and the accounts' staging
\* areas (a token that enters a pool by create_pair or add_liquidity leaves
\* the depositor's staging area in the same call).
C2_RecordedInOnePlace ==
    \A asset_id \in Assets, token_id \in Tokens :
        Cardinality({i \in DOMAIN pools :
                        /\ pools[i].nft_token = asset_id
                        /\ MapHas(pools[i].token_ids_in_pools, token_id)})
        + Cardinality({a \in DOMAIN account_deposits :
                          token_id \in Staged(account_deposits, a, asset_id)})
        <= 1

\* C3: a swap goes through only if every token id it sold was in flight or
\* in the caller's staging area.
C3_SoldIdsAreBacked ==
    [][(calls' # calls /\ last'.op = "swap") => last'.unbacked = {}]_vars

\* C4: a withdraw_near or withdraw_nfts goes through only for the owner of
\* the pool.
C4_WithdrawalsAreOwnerOnly ==
    [][(calls' # calls /\ last'.op \in {"withdraw_near", "withdraw_nfts"})
         => last'.caller = PoolAt(last'.pool_id).owner]_vars

\* C5: a withdraw_near or withdraw_nfts goes through only on a pool that is
\* no Trade pool and whose released_time is at most the current time in
\* seconds.
C5_WithdrawalsAreGated ==
    [][(calls' # calls /\ last'.op \in {"withdraw_near", "withdraw_nfts"})
         => /\ PoolAt(last'.pool_id).pool_type # "Trade"
            /\ PoolAt(last'.pool_id).released_time <= block_timestamp_ms \div 1000]_vars

\* A withdrawal has gone through on a pool that was locked until second 1.
C5_Witness ==
    /\ last.op \in {"withdraw_near", "withdraw_nfts"}
    /\ HasPool(last.pool_id)
    /\ PoolAt(last.pool_id).released_time = 1
    /\ block_timestamp_ms \div 1000 >= 1

\* C6: the coin withdraw_near sends to its caller is the amount by which
\* the pool's near_balance decreases, and at most the balance before.
C6_PaysWhatThePoolLoses ==
    [][(calls' # calls /\ last'.op = "withdraw_near")
         => /\ Le(last'.transfer, PoolAt(last'.pool_id).near_balance)
            /\ Add(pools'[last'.pool_id + 1].near_balance, last'.transfer)
                 = PoolAt(last'.pool_id).near_balance]_vars

\* C7: a remove_liquidity that goes through on a Token or NFT pool leaves
\* the pool's coin and its inventory as they were.
C7_BurnRedeemsTradePoolsOnly ==
    [][(/\ calls' # calls
        /\ last'.op = "remove_liquidity"
        /\ PoolAt(last'.pool_id).pool_type # "Trade")
         => /\ pools'[last'.pool_id + 1].near_balance
                 = PoolAt(last'.pool_id).near_balance
            /\ pools'[last'.pool_id + 1].token_ids_in_pools
                 = PoolAt(last'.pool_id).token_ids_in_pools]_vars

C9_PoolTypeDiscipline ==
    \A i \in DOMAIN pools :
        /\ pools[i].pool_type \in {"Token", "NFT"}
             => pools[i].fee = <<>> /\ pools[i].asset_recipient # NONE
        /\ pools[i].pool_type = "Trade"
             => Lt(pools[i].fee, MAX_FEE) /\ pools[i].asset_recipient = NONE

\* C10: in every reachable state an Exponential pool has delta > WAD and
\* spot_price >= MIN_PRICE.
C10_CurveValidity ==
    \A i \in DOMAIN pools :
        pools[i].curve = "ExponentialCurve"
            => Lt(WAD, pools[i].delta) /\ Le(MIN_PRICE, pools[i].spot_price)

(***************************************************************************)
(* The actions of a swap.  hops holds, for the swap that went through      *)
(* last, one record for each action: the pool before and after, and what   *)
(* the Pair method returned.                                               *)
(***************************************************************************)
Buys == {i \in DOMAIN hops : hops[i].swap_type = "NearToNFT"}

Sells == {i \in DOMAIN hops : hops[i].swap_type = "NFTToNear"}

\* C11: a buy that went through, with the pair (input, fee) it returned,
\* raised the coin balance of a Trade pool by exactly input - fee and left
\* the coin balance of a Token or NFT pool as it was.
C11_BuyCreditsInputLessFee ==
    \A i \in Buys :
        IF hops[i].before.pool_type = "Trade"
        THEN /\ Le(hops[i].protocol_fee, hops[i].amount)
             /\ hops[i].after.near_balance =
                    Add(hops[i].before.near_balance,
                        Sub(hops[i].amount, hops[i].protocol_fee))
        ELSE hops[i].after.near_balance = hops[i].before.near_balance

\* A buy from a Trade pool with a protocol fee above zero.
C11_Witness ==
    \E i \in Buys :
        /\ hops[i].before.pool_type = "Trade"
        /\ hops[i].protocol_fee # <<>>
        /\ Lt(hops[i].protocol_fee, hops[i].amount)

\* What the curve quotes for the sell of action i at the pool's state before
\* it: amount is the output and protocol_fee the fee.
SellQuote(i) ==
    calculate_sell_info_and_update_pool(hops[i].before, Len(hops[i].token_ids),
                                        <<>>, protocol_fee_multiplier)

\* C12 as the specification states it: after a sell that went through,
\* quoted (output, fee), the pool's coin balance has gone down by at most
\* output + fee, and it is zero if and only if the balance before was below
\* output + fee.
C12_ZeroIffInsufficient ==
    \A i \in Sells :
        /\ Le(hops[i].after.near_balance, hops[i].before.near_balance)
        /\ Le(Sub(hops[i].before.near_balance, hops[i].after.near_balance),
              Add(SellQuote(i).amount, SellQuote(i).protocol_fee))
        /\ hops[i].after.near_balance = <<>>
              <=> Lt(hops[i].before.near_balance,
                     Add(SellQuote(i).amount, SellQuote(i).protocol_fee))

\* C12 amended: after a sell that went through, quoted (output, fee), the
\* pool's coin balance has gone down by at most output + fee, and it is zero
\* if and only if the balance before did not exceed output + fee; a balance
\* of exactly output + fee covers the sell and is left at zero.
C12_SellSaturates ==
    \A i \in Sells :
        /\ Le(hops[i].after.near_balance, hops[i].before.near_balance)
        /\ Le(Sub(hops[i].before.near_balance, hops[i].after.near_balance),
              Add(SellQuote(i).amount, SellQuote(i).protocol_fee))
        /\ hops[i].after.near_balance = <<>>
              <=> Le(hops[i].before.near_balance,
                     Add(SellQuote(i).amount, SellQuote(i).protocol_fee))

\* A sell to a pool whose coin balance is exactly output + fee.
C12_Witness ==
    \E i \in Sells :
        /\ hops[i].before.near_balance # <<>>
        /\ hops[i].before.near_balance =
               Add(SellQuote(i).amount, SellQuote(i).protocol_fee)
        /\ hops[i].after.near_balance = <<>>

\* C13: the output a sell reports is the coin paid, the smaller of the
\* quoted output and the pool's coin balance before the sell; the protocol
\* fee it reports is the smaller of the quoted fee and what the balance was
\* after that payment; and no sell goes through with a paid output below the
\* min_output_near of its action.
C13_SellReportsWhatItPaid ==
    \A i \in Sells :
        /\ hops[i].amount = Min(SellQuote(i).amount, hops[i].before.near_balance)
        /\ hops[i].protocol_fee =
               Min(SellQuote(i).protocol_fee,
                   Sub(hops[i].before.near_balance, hops[i].amount))
        /\ Le(hops[i].min_output_near, hops[i].amount)

\* A sell to a pool that holds coin, less than the quoted output: it pays
\* its balance, captures no fee and is left at zero.
C13_Witness ==
    \E i \in Sells :
        /\ hops[i].before.near_balance # <<>>
        /\ Lt(hops[i].before.near_balance, SellQuote(i).amount)
        /\ hops[i].amount = hops[i].before.near_balance
        /\ SellQuote(i).protocol_fee # <<>>
        /\ hops[i].protocol_fee = <<>>
        /\ hops[i].after.near_balance = <<>>

\* C14: no buy goes through on a Token pool and no sell on an NFT pool: the
\* pool of every buy action that went through was an NFT or a Trade pool,
\* that of every sell action a Token or a Trade pool; and on a pool of the
\* other type the Pair methods abort, whatever they are asked, and leave the
\* pool as it was.
C14_WrongPoolTypeRejected ==
    /\ \A i \in Buys : hops[i].before.pool_type \in {"NFT", "Trade"}
    /\ \A i \in Sells : hops[i].before.pool_type \in {"Token", "Trade"}
    /\ \A p \in DOMAIN pools :
          /\ pools[p].pool_type = "Token" =>
                /\ \A n \in 0 .. 2 :
                      LET r == swap_near_for_any_nfts(pools[p], U128_MAX, n,
                                                      protocol_fee_multiplier)
                      IN  r.panic /\ r.pair = pools[p]
                /\ \A ids \in TokenLists :
                      LET r == swap_near_for_specific_nfts(pools[p], U128_MAX, ids,
                                                           protocol_fee_multiplier)
                      IN  r.panic /\ r.pair = pools[p]
          /\ pools[p].pool_type = "NFT" =>
                \A ids \in TokenLists, account_id \in Accounts :
                    LET r == swap_nfts_for_near(pools[p], account_id, ids, <<>>,
                                                protocol_fee_multiplier)
                    IN  r.panic /\ r.pair = pools[p]

\* A Token pool that holds a token: the buy of it is refused, and is not
\* refused by the same pool with the type NFT.
C14_Witness ==
    \E p \in DOMAIN pools :
        /\ pools[p].pool_type = "Token"
        /\ pools[p].token_ids_in_pools # <<>>
        /\ swap_near_for_any_nfts(pools[p], <<40>>, 1, protocol_fee_multiplier).panic
        /\ ~swap_near_for_any_nfts([pools[p] EXCEPT !.pool_type = "NFT"], <<40>>, 1,
                                   protocol_fee_multiplier).panic

\* The sum of the protocol fees the actions of a swap returned.
RECURSIVE SumFees(_)
SumFees(trail) ==
    IF trail = <<>> THEN <<>>
    ELSE Add(Head(trail).protocol_fee, SumFees(Tail(trail)))

\* C15: across a swap that went through, protocol_fee_credit after the call
\* is protocol_fee_credit before it plus the sum of the protocol fees of its
\* actions.
C15_CreditIsSumOfHopFees ==
    [][(calls' # calls /\ last'.op = "swap")
          => protocol_fee_credit' = Add(protocol_fee_credit, SumFees(hops'))]_vars

\* A swap of two actions, a buy and a sell, each with a protocol fee above
\* zero.
C15_Witness ==
    /\ last.op = "swap"
    /\ Len(hops) = 2
    /\ Buys # {} /\ Sells # {}
    /\ \A i \in DOMAIN hops : hops[i].protocol_fee # <<>>
    /\ Le(SumFees(hops), protocol_fee_credit)

\* C16: protocol_fee_credit changes only in a swap: every step that changes
\* it is a swap that went through, so that create_pair, add_liquidity,
\* remove_liquidity, the withdrawals and the LP calls leave it as it was, and
\* the fee burn_lp returns to remove_liquidity is not credited.
C16_CreditChangesOnlyInSwaps ==
    [][protocol_fee_credit' # protocol_fee_credit
          => (calls' # calls /\ last'.op = "swap")]_vars

\* The second action of a list of two, after the first went through with
\* the deposit attached, run with the given budget for its buy.
SecondHop(first, predecessor, actions, budget, hash_order) ==
    internal_swap_with_action(first.c, predecessor, actions[2], first.cached,
                              first.remain, budget, protocol_fee_multiplier,
                              hash_order)

FirstHop(predecessor, actions, attached_deposit, hash_order) ==
    internal_swap_with_action([pools |-> pools, credit |-> protocol_fee_credit,
                               deps |-> account_deposits],
                              predecessor, actions[1], <<>>, attached_deposit,
                              attached_deposit, protocol_fee_multiplier,
                              hash_order)

\* C17: every buy action is budgeted by the coin that remains: no buy goes
\* through with an input above input_near_value, the coin left by the
\* actions before it, and a buy that follows another action aborts exactly
\* when it aborts with that coin as its budget, so that it is not refused
\* for lack of coin while its quoted input is at most the coin that remains.
C17_BudgetIsCoinRemaining ==
    /\ \A i \in Buys : Le(hops[i].amount, hops[i].input_near_value)
    /\ \A predecessor \in Accounts, attached_deposit \in LiquidityDeposits, hash_order \in HashOrders :
          \A actions \in {l \in ActionLists : Len(l) = 2} :
              (/\ actions[2].swap_type = 1
               /\ actions[1].pool_id + 1 \in DOMAIN pools
               /\ ~FirstHop(predecessor, actions, attached_deposit, hash_order).panic)
              => LET first == FirstHop(predecessor, actions, attached_deposit,
                                       hash_order)
                 IN  SecondHop(first, predecessor, actions, attached_deposit,
                               hash_order).panic
                     <=> SecondHop(first, predecessor, actions, first.remain,
                                   hash_order).panic

\* A swap whose actions were a buy from one Trade pool and then a sell,
\* with no input_token_ids, to another Trade pool of the same asset.
IsHandOver(trail) ==
    /\ Len(trail) = 2
    /\ trail[1].swap_type = "NearToNFT"
    /\ trail[2].swap_type = "NFTToNear"
    /\ trail[2].action.input_token_ids = <<>>
    /\ trail[1].pool_id # trail[2].pool_id
    /\ trail[1].before.pool_type = "Trade"
    /\ trail[2].before.pool_type = "Trade"
    /\ trail[1].before.nft_token = trail[2].before.nft_token

\* C18: in a swap [buy from pool A, sell to pool B with no ids given] on two
\* Trade pools of one asset, the sell sells exactly the ids the buy acquired,
\* to pool B as it was (the buy left it alone) and after pool A was updated;
\* nothing stays in flight, so no NFT transfer to the caller is dispatched;
\* and the caller is sent the deposit attached less the input of the buy
\* plus the output of the sell.
C18_HandOverBetweenPools ==
    [][(calls' # calls /\ last'.op = "swap" /\ IsHandOver(hops'))
          => /\ Range(hops'[2].token_ids) = Range(hops'[1].token_ids)
             /\ Len(hops'[2].token_ids) = Len(hops'[1].token_ids)
             /\ hops'[1].before = PoolAt(hops'[1].pool_id)
             /\ hops'[2].before = PoolAt(hops'[2].pool_id)
             /\ pools'[hops'[1].pool_id + 1] = hops'[1].after
             /\ pools'[hops'[2].pool_id + 1] = hops'[2].after
             /\ Range(hops'[1].token_ids)
                   \subseteq Range(MapKeys(hops'[2].after.token_ids_in_pools))
             /\ promises' = promises
             /\ Le(hops'[1].amount, hops'[1].input_near_value)
             /\ last'.transfer = Add(Sub(hops'[1].input_near_value, hops'[1].amount),
                                     hops'[2].amount)]_vars

\* Such a swap went through: the id bought from the first pool is held by
\* the second, and the caller got coin back.
C18_Witness ==
    /\ last.op = "swap"
    /\ IsHandOver(hops)
    /\ hops[1].token_ids # <<>>
    /\ hops[2].amount # <<>>
    /\ last.transfer # <<>>
    /\ Range(hops[1].token_ids)
          \subseteq Range(MapKeys(PoolAt(hops[2].pool_id).token_ids_in_pools))

\* The coin a swap has left for its caller after its actions: the deposit
\* attached, plus the output of every sell, less the input of every buy.
RECURSIVE CoinAfter(_, _)
CoinAfter(coin, trail) ==
    IF trail = <<>> THEN coin
    ELSE IF Head(trail).swap_type = "NFTToNear"
    THEN CoinAfter(Add(coin, Head(trail).amount), Tail(trail))
    ELSE CoinAfter(Sub(coin, Head(trail).amount), Tail(trail))

\* The ids of an asset bought by the actions and not sold by a later one.
RECURSIVE BoughtAndKept(_, _, _)
BoughtAndKept(kept, asset_id, trail) ==
    IF trail = <<>> THEN kept
    ELSE IF Head(trail).before.nft_token # asset_id
    THEN BoughtAndKept(kept, asset_id, Tail(trail))
    ELSE IF Head(trail).swap_type = "NFTToNear"
    THEN BoughtAndKept(kept \ Range(Head(trail).token_ids), asset_id, Tail(trail))
    ELSE BoughtAndKept(kept \cup Range(Head(trail).token_ids), asset_id, Tail(trail))

Count(bag, receipt) == IF receipt \in DOMAIN bag THEN bag[receipt] ELSE 0

\* C19: at the end of a swap that went through, the coin sent to the caller
\* is the deposit attached plus the outputs of its sells less the inputs of
\* its buys, and the NFT transfers it dispatched are one to the caller for
\* each id bought and not sold by a later action, and no other.
C19_RefundAndDispatch ==
    [][(calls' # calls /\ last'.op = "swap")
          => /\ last'.transfer = CoinAfter(hops'[1].input_near_value, hops')
             /\ \A receipt \in NftReceipts \cup DOMAIN promises \cup DOMAIN promises' :
                   Count(promises', receipt) =
                       Count(promises, receipt)
                       + (IF /\ receipt.kind = "nft_transfer"
                             /\ receipt.receiver_id = last'.caller
                             /\ receipt.token_id
                                   \in BoughtAndKept({}, receipt.asset_id, hops')
                          THEN 1 ELSE 0)]_vars

\* A swap that bought two ids and sold one of them: the caller got coin
\* back and the transfer of the other id, and none of the id sold.
C19_Witness ==
    /\ last.op = "swap"
    /\ Len(hops) = 2
    /\ Len(hops[1].token_ids) = 2
    /\ hops[2].swap_type = "NFTToNear"
    /\ Len(hops[2].token_ids) = 1
    /\ last.transfer # <<>>
    /\ \E kept \in Tokens :
          /\ BoughtAndKept({}, hops[1].before.nft_token, hops) = {kept}
          /\ Count(promises, NftTransfer(last.caller, hops[1].before.nft_token, kept)) = 1
          /\ \A sold \in Range(hops[2].token_ids) :
                Count(promises, NftTransfer(last.caller, hops[1].before.nft_token, sold)) = 0

(***************************************************************************)
(* The inventory of one Pair.  SpecInventory starts from a pair as         *)
(* Pair::new and create_pair's internal_register_account_lp leave it, a    *)
(* linear Trade pool or NFT pool, or from an exponential Trade pool as     *)
(* create_pair leaves it after the deposit of three token ids and          *)
(* 4 * 10^24 coin, and applies the Pair methods that insert into           *)
(* token_ids_in_pools or remove from it, over three token ids.             *)
(* inserted lists the ids the pair holds in the order of their insertion:   *)
(* the insert of an id the pair holds already replaces its entry and       *)
(* leaves its place as it was.                                             *)
(***************************************************************************)
InventoryTokens == {"t1", "t2", "t3"}

InventoryLists ==
    {<<a>> : a \in InventoryTokens}
    \cup {l \in InventoryTokens \X InventoryTokens : l[1] # l[2]}
    \cup {<<"t1", "t2", "t3">>}

AmpleNear == <<100>>

\* Half of the shares that a deposit of 4 * 10^24 coin mints.
HalfOfShares == Mul(N(2), MIN_PRICE)

InventoryLp == {<<50>>, <<100>>, HalfOfShares}

OneAndHalfWAD == Div(Mul(N(3), WAD), N(2))

RECURSIVE Without(_, _)
Without(seq, gone) ==
    IF seq = <<>> THEN <<>>
    ELSE IF Head(seq) \in gone THEN Without(Tail(seq), gone)
    ELSE <<Head(seq)>> \o Without(Tail(seq), gone)

Held(self) == Range(MapKeys(self.token_ids_in_pools))

InitInventory ==
    /\ \/ /\ pools \in {<<internal_register_account_lp(
                              Pair_new("LinearCurve", pool_type, "nft", LinearSpot,
                                       LinearDelta, <<>>, "alice",
                                       IF pool_type = "Trade" THEN NONE ELSE "alice",
                                       <<>>, 0).pair,
                              "alice")>> : pool_type \in {"Trade", "NFT"}}
          /\ inserted = <<>>
       \/ /\ pools = <<deposit_and_mint_lp(
                           internal_register_account_lp(
                               Pair_new("ExponentialCurve", "Trade", "nft", MIN_PRICE,
                                        OneAndHalfWAD, <<>>, "alice", NONE, <<>>,
                                        0).pair,
                               "alice"),
                           "alice", "alice", <<"t1", "t2", "t3">>,
                           Mul(N(4), MIN_PRICE)).pair>>
          /\ inserted = <<"t1", "t2", "t3">>
    /\ protocol_fee_credit = <<>>
    /\ protocol_fee_multiplier \in {Contract_new(given) : given \in {None}}
    /\ account_deposits = <<>>
    /\ block_timestamp_ms = 0
    /\ nft_owner = [t \in Tokens |-> "alice"]
    /\ promises = <<>>
    /\ last = Call("new", TRUE, NONE, 0, <<>>, {})
    /\ calls = 0
    /\ hops = <<>>
    /\ quoted = NoQuote

\* A Pair method that went through: the pair it left, what it returned, and
\* the order of insertion afterwards.
InventoryStep(op, predecessor, r, trail, order) ==
    IF r.panic THEN Abort
    ELSE /\ pools' = <<r.pair>>
         /\ calls' = calls + 1
         /\ hops' = trail
         /\ inserted' = order
         /\ quoted' = quoted
         /\ last' = Call(op, TRUE, predecessor, 0, r.amount, {})
         /\ UNCHANGED <<protocol_fee_credit, protocol_fee_multiplier,
                        account_deposits, nft_owner, promises>>

PairDeposit(token_ids, near_balance) ==
    /\ calls < MaxCalls
    /\ UNCHANGED block_timestamp_ms
    /\ \E r \in {deposit_and_mint_lp(pools[1], "alice", "alice", token_ids,
                                      near_balance)} :
          InventoryStep("deposit_and_mint_lp", "alice", r, <<>>,
                        inserted \o Without(token_ids, Held(pools[1])))

PairBuyAny(num_nfts) ==
    /\ calls < MaxCalls
    /\ UNCHANGED block_timestamp_ms
    /\ \E r \in {swap_near_for_any_nfts(pools[1], AmpleNear, num_nfts,
                                         protocol_fee_multiplier)} :
          InventoryStep("swap_near_for_any_nfts", "bob", r,
                        <<HopRecord(Action(0, 1, None, <<>>, <<>>, Some(num_nfts)),
                                    pools[1], r, AmpleNear)>>,
                        Without(inserted, Range(r.token_ids)))

PairBuySpecific(nft_ids) ==
    /\ calls < MaxCalls
    /\ UNCHANGED block_timestamp_ms
    /\ \E r \in {swap_near_for_specific_nfts(pools[1], AmpleNear, nft_ids,
                                              protocol_fee_multiplier)} :
          InventoryStep("swap_near_for_specific_nfts", "bob", r, <<>>,
                        Without(inserted, Range(nft_ids)))

PairSell(nft_ids) ==
    /\ calls < MaxCalls
    /\ UNCHANGED block_timestamp_ms
    /\ \E r \in {swap_nfts_for_near(pools[1], "bob", nft_ids, <<>>,
                                     protocol_fee_multiplier)} :
          InventoryStep("swap_nfts_for_near", "bob", r, <<>>,
                        inserted \o Without(nft_ids, Held(pools[1])))

PairBurn(lp) ==
    /\ calls < MaxCalls
    /\ UNCHANGED block_timestamp_ms
    /\ \E r \in {burn_lp(pools[1], "alice", lp, protocol_fee_multiplier)} :
          InventoryStep("burn_lp", "alice", r, <<>>,
                        Without(inserted, Range(r.token_ids)))

PairWithdrawNfts(token_ids) ==
    /\ calls < MaxCalls
    /\ UNCHANGED block_timestamp_ms
    /\ \E r \in {Pair_withdraw_nfts(pools[1], "alice", block_timestamp_ms,
                                     token_ids)} :
          InventoryStep("withdraw_nfts", "alice", r, <<>>,
                        Without(inserted, Range(token_ids)))

NextInventory ==
    \/ \E token_ids \in InventoryLists \cup {<<>>}, near_balance \in {AmpleNear} :
          PairDeposit(token_ids, near_balance)
    \/ \E num_nfts \in 0 .. 3 :
          PairBuyAny(num_nfts)
    \/ \E nft_ids \in InventoryLists :
          PairBuySpecific(nft_ids)
    \/ \E nft_ids \in InventoryLists :
          PairSell(nft_ids)
    \/ \E lp \in InventoryLp :
          PairBurn(lp)
    \/ \E token_ids \in InventoryLists :
          PairWithdrawNfts(token_ids)

SpecInventory == InitInventory /\ [][NextInventory]_vars

\* C20: an any-n buy returns the n ids inserted earliest among those the
\* pool holds, whatever deposits, buys, sells, burns and withdrawals came
\* before it.
C20_AnyBuyTakesEarliest ==
    [][(calls' # calls /\ last'.op = "swap_near_for_any_nfts")
          => Range(hops'[1].token_ids)
               = Range(SubSeq(inserted, 1, Len(hops'[1].token_ids)))]_vars

\* C21: the callback of a dispatched nft_transfer changes no pool; when the
\* transfer failed the token is afterwards in the staging area of the
\* account it was sent to, and when it succeeded the staging areas are as
\* they were.
C21_FailedTransferIsStaged ==
    [][\A receipt \in NftReceipts :
          Count(promises', receipt) < Count(promises, receipt)
             => /\ pools' = pools
                /\ protocol_fee_credit' = protocol_fee_credit
                /\ IF last'.promise_result.kind = "Failed"
                   THEN receipt.token_id
                           \in Staged(account_deposits', receipt.receiver_id,
                                      receipt.asset_id)
                   ELSE account_deposits' = account_deposits]_vars

(***************************************************************************)
(* The LP ledger of one pool.  SpecLp starts where alice has registered,   *)
(* staged t1 and t2 and created a Trade pool with 40 coin, with the two    *)
(* tokens or with none, and makes the calls that mint, move and burn       *)
(* shares, so that calls can come between an lp_transfer_call and its      *)
(* callback.                                                               *)
(***************************************************************************)
LpInitialIds == {<<>>, <<"t1", "t2">>}

LpFees == {<<>>, TenthWAD}

InitLp ==
    /\ \E ids \in LpInitialIds, fee \in LpFees :
          /\ pools = <<deposit_and_mint_lp(
                           internal_register_account_lp(
                               Pair_new("LinearCurve", "Trade", "nft", LinearSpot,
                                        LinearDelta, fee, "alice", NONE, <<>>, 0).pair,
                               "alice"),
                           "alice", "alice", ids, <<40>>).pair>>
          /\ account_deposits =
                internal_withdraw_nft(
                    DepositEach(internal_register_account(<<>>, "alice", StorageMin,
                                                          TRUE).deps,
                                "alice", "nft", <<"t1", "t2">>).deps,
                    "alice", "nft", ids).deps
    /\ protocol_fee_credit = <<>>
    /\ protocol_fee_multiplier \in {Contract_new(given) : given \in {None}}
    /\ block_timestamp_ms = 0
    /\ nft_owner = [t \in Tokens |-> "alice"]
    /\ promises = <<>>
    /\ last = Call("create_pair", TRUE, "alice", 0, <<>>, {})
    /\ calls = 0
    /\ hops = <<>>
    /\ inserted = <<>>
    /\ quoted = NoQuote

NextLp ==
    \/ \E predecessor \in Accounts, pool_id \in PoolIds, account_id \in Accounts, attached_deposit \in LpEntryDeposits :
          lp_register(predecessor, pool_id, account_id, attached_deposit)
    \/ \E predecessor \in Accounts, pool_id \in PoolIds, receiver_id \in Accounts, amount \in LpAmounts, attached_deposit \in SmallDeposits :
          lp_transfer(predecessor, pool_id, receiver_id, amount, attached_deposit)
    \/ \E predecessor \in Accounts, pool_id \in PoolIds, receiver_id \in Accounts, amount \in LpAmounts, attached_deposit \in SmallDeposits :
          lp_transfer_call(predecessor, pool_id, receiver_id, amount, attached_deposit)
    \/ \E receipt \in LpReceipts, outcome \in Outcomes :
          lp_resolve_transfer(receipt, outcome)
    \/ \E predecessor \in Accounts, pool_id \in PoolIds, token_ids \in TokenLists, attached_deposit \in LiquidityDeposits, covered \in BOOLEAN :
          add_liquidity(predecessor, pool_id, token_ids, attached_deposit, covered)
    \/ \E predecessor \in Accounts, pool_id \in PoolIds, lp \in LpAmounts, attached_deposit \in SmallDeposits :
          remove_liquidity(predecessor, pool_id, lp, attached_deposit)

SpecLp == InitLp /\ [][NextLp]_vars

\* C22: the callback of an lp_transfer_call moves, from the receiver back to
\* the sender, the least of the amount transferred, the unused amount the
\* receiver reported (the whole amount when the receiver failed or returned
\* no number) and the receiver's balance when the callback runs; no other
\* balance, the supply and nothing else of any pool changes, whatever calls
\* were made between the transfer and the callback.
C22_RefundMovesShares ==
    [][\A receipt \in LpReceipts :
          Count(promises', receipt) < Count(promises, receipt)
             => LET before == PoolAt(receipt.pool_id)
                    after  == pools'[receipt.pool_id + 1]
                    unused == IF last'.promise_result.kind = "Value"
                              THEN last'.promise_result.unused
                              ELSE receipt.amount
                    refund == Min(Min(unused, receipt.amount),
                                  before.lp_balances[receipt.receiver_id])
                IN  /\ after.lp_balances[receipt.sender_id]
                          = Add(before.lp_balances[receipt.sender_id], refund)
                    /\ Add(after.lp_balances[receipt.receiver_id], refund)
                          = before.lp_balances[receipt.receiver_id]
                    /\ pools' = [pools EXCEPT ![receipt.pool_id + 1].lp_balances =
                                                  after.lp_balances]
                    /\ DOMAIN after.lp_balances = DOMAIN before.lp_balances
                    /\ \A other \in DOMAIN before.lp_balances
                                      \ {receipt.sender_id, receipt.receiver_id} :
                          after.lp_balances[other] = before.lp_balances[other]]_vars

\* A callback that found the receiver failed after the receiver had burnt
\* half of the 40 shares it was sent: the sender has the other 20 again, the
\* receiver has none, and the supply is 20.
C22_Witness ==
    /\ last.op = "lp_resolve_transfer"
    /\ last.ok
    /\ last.promise_result.kind = "Failed"
    /\ last.caller = "alice"
    /\ promises = <<>>
    /\ PoolAt(0).lp_balances = [alice |-> <<20>>, bob |-> <<>>]
    /\ PoolAt(0).lp_supply = <<20>>
    /\ calls = 3

\* C23: an lp_transfer of k > 0 shares by A credits k to one other holder
\* B, and B burning k then redeems what A burning k would have redeemed
\* before the transfer: the same coin, the same token ids in the same
\* order, the same protocol fee, and the same pool afterwards apart from
\* the balances of the shares.
C23_SharesAreFungible ==
    [][(calls' # calls /\ last'.op = "lp_transfer")
          => LET before == PoolAt(last'.pool_id)
                 after  == pools'[last'.pool_id + 1]
                 A      == last'.caller
                 k      == Sub(before.lp_balances[A], after.lp_balances[A])
                 direct == burn_lp(before, A, k, protocol_fee_multiplier)
                 Same(moved) ==
                     /\ moved.panic = direct.panic
                     /\ moved.amount = direct.amount
                     /\ moved.token_ids = direct.token_ids
                     /\ moved.protocol_fee = direct.protocol_fee
                     /\ [moved.pair EXCEPT !.lp_balances = <<>>]
                           = [direct.pair EXCEPT !.lp_balances = <<>>]
             IN  k # <<>>
                    => \E B \in DOMAIN before.lp_balances \ {A} :
                          /\ after.lp_balances[B] = Add(before.lp_balances[B], k)
                          /\ Same(burn_lp(after, B, k, protocol_fee_multiplier))]_vars

\* bob, who was sent the shares he holds, has burnt some of them and was
\* paid coin and sent a token for them.
C23_Witness ==
    /\ last.op = "remove_liquidity"
    /\ last.caller = "bob"
    /\ last.transfer # <<>>
    /\ \E token_id \in Tokens :
          Count(promises, NftTransfer("bob", "nft", token_id)) > 0
    /\ "bob" \notin DOMAIN account_deposits

(***************************************************************************)
(* The curve kernels.  SpecCurve starts from one pool as Pair::new accepts *)
(* it, of either curve, and asks the pool's curve for buy and sell quotes  *)
(* of 0 to MaxItems items; a quote that calculate_buy_info_and_update_pool *)
(* or calculate_sell_info_and_update_pool accepts moves the pool's         *)
(* spot_price and delta.  quoted is the last quote asked for: the          *)
(* arguments get_buy_info or get_sell_info was called with and what it     *)
(* returned (info.panic when it aborted).                                  *)
(***************************************************************************)
MaxItems == 3

NearMax == Sub(U128_MAX, <<5>>)

HalfAgain == <<0, 0, 0, 0, 150>>

CurveInputs ==
    {[curve |-> "LinearCurve", spot_price |-> spot_price, delta |-> delta] :
        spot_price \in {LinearSpot, <<3>>, NearMax}, delta \in {LinearDelta, <<4>>, <<>>}}
    \cup {[curve |-> "ExponentialCurve", spot_price |-> spot_price, delta |-> delta] :
        spot_price \in {MIN_PRICE, Mul(N(3), MIN_PRICE)},
        delta \in {Add(WAD, WAD), HalfAgain, SteepDelta}}

CurveFees == {<<>>, TenthWAD}

InitCurve ==
    /\ pools \in {<<made.pair>> :
                    made \in {r \in {Pair_new(c.curve, "Trade", "nft", c.spot_price,
                                              c.delta, fee, "alice", NONE, <<>>, 0) :
                                        c \in CurveInputs, fee \in CurveFees} :
                               ~r.panic}}
    /\ protocol_fee_credit = <<>>
    /\ protocol_fee_multiplier \in {Contract_new(given) : given \in {None, Some(<<>>)}}
    /\ account_deposits = <<>>
    /\ block_timestamp_ms = 0
    /\ nft_owner = [t \in Tokens |-> "alice"]
    /\ promises = <<>>
    /\ last = Call("new", TRUE, NONE, 0, <<>>, {})
    /\ calls = 0
    /\ hops = <<>>
    /\ inserted = <<>>
    /\ quoted = NoQuote

Quote(kind, self, num_items, pfm, info) ==
    [kind |-> kind, curve |-> self.curve, spot_price |-> self.spot_price,
     delta |-> self.delta, num_items |-> num_items, fee_multiplier |-> self.fee,
     protocol_fee_multiplier |-> pfm, info |-> info]

CurveStep(op, quote, r) ==
    /\ quoted' = quote
    /\ pools' = <<r.pair>>
    /\ calls' = calls + 1
    /\ last' = Call(op, ~quote.info.panic, NONE, 0, <<>>, {})
    /\ UNCHANGED <<protocol_fee_credit, protocol_fee_multiplier, account_deposits,
                   block_timestamp_ms, nft_owner, promises, hops, inserted>>

CurveBuy(num_items) ==
    /\ calls < MaxCalls
    /\ \E info \in {get_buy_info(pools[1].curve, pools[1].spot_price,
                                 pools[1].delta, num_items, pools[1].fee,
                                 protocol_fee_multiplier)},
          r \in {calculate_buy_info_and_update_pool(pools[1], num_items, U256_MAX,
                                                    protocol_fee_multiplier)} :
          CurveStep("get_buy_info",
                    Quote("buy", pools[1], num_items, protocol_fee_multiplier, info), r)

CurveSell(num_items) ==
    /\ calls < MaxCalls
    /\ \E info \in {get_sell_info(pools[1].curve, pools[1].spot_price,
                                  pools[1].delta, num_items, pools[1].fee,
                                  protocol_fee_multiplier)},
          r \in {calculate_sell_info_and_update_pool(pools[1], num_items, <<>>,
                                                     protocol_fee_multiplier)} :
          CurveStep("get_sell_info",
                    Quote("sell", pools[1], num_items, protocol_fee_multiplier, info), r)

\* The numbers of items a buy is quoted for: the small ones, which a sell is
\* quoted for too, and one large one.
ManyItems == 200

Quantities == (0 .. MaxItems) \cup {ManyItems}

NextCurve ==
    \/ \E num_items \in Quantities :
          CurveBuy(num_items)
    \/ \E num_items \in 0 .. MaxItems :
          CurveSell(num_items)

SpecCurve == InitCurve /\ [][NextCurve]_vars

\* C24: on a linear pool with no trade fee and no protocol fee, the sell
\* quote for n items asked right after an Ok buy quote for n items has moved
\* the pool is Ok, returns the spot price and delta the buy started from,
\* and puts out the coin the buy took in; the pool is back at that spot
\* price and delta.
C24_LinearRoundTrip ==
    [][(/\ calls' # calls
        /\ quoted.kind = "buy" /\ quoted'.kind = "sell"
        /\ quoted.curve = "LinearCurve"
        /\ quoted.fee_multiplier = <<>> /\ quoted.protocol_fee_multiplier = <<>>
        /\ ~quoted.info.panic /\ quoted.info.error_code = "Ok"
        /\ pools[1].spot_price = quoted.info.new_spot_price
        /\ pools[1].delta = quoted.info.new_delta
        /\ quoted'.num_items = quoted.num_items)
          => /\ ~quoted'.info.panic
             /\ quoted'.info.error_code = "Ok"
             /\ quoted'.info.new_spot_price = quoted.spot_price
             /\ quoted'.info.new_delta = quoted.delta
             /\ quoted'.info.output_value = quoted.info.input_value
             /\ pools'[1].spot_price = quoted.spot_price
             /\ pools'[1].delta = quoted.delta]_vars

\* The second quote of a run is a sell of 2 items from spot price 14 with
\* delta 2 and no fees, which only a buy of 2 items from 10 leaves, and it
\* took the pool back to 10 for the coin 26 = 12 + 14.
C24_Witness ==
    /\ calls = 2
    /\ quoted.kind = "sell"
    /\ quoted.curve = "LinearCurve"
    /\ quoted.num_items = 2
    /\ quoted.fee_multiplier = <<>> /\ quoted.protocol_fee_multiplier = <<>>
    /\ quoted.spot_price = <<14>> /\ quoted.delta = LinearDelta
    /\ quoted.info.error_code = "Ok"
    /\ quoted.info.output_value = <<26>>
    /\ pools[1].spot_price = LinearSpot

\* C25: on an exponential pool with no trade fee and no protocol fee, the
\* sell quote for n items asked right after an Ok buy quote for n items has
\* moved the pool is Ok, returns the spot price the buy started from (and
\* no less than MIN_PRICE) and its delta, and puts out the coin the buy took
\* in; the pool is back at that spot price and delta.
C25_ExponentialRoundTrip ==
    [][(/\ calls' # calls
        /\ quoted.kind = "buy" /\ quoted'.kind = "sell"
        /\ quoted.curve = "ExponentialCurve"
        /\ quoted.fee_multiplier = <<>> /\ quoted.protocol_fee_multiplier = <<>>
        /\ ~quoted.info.panic /\ quoted.info.error_code = "Ok"
        /\ pools[1].spot_price = quoted.info.new_spot_price
        /\ pools[1].delta = quoted.info.new_delta
        /\ quoted'.num_items = quoted.num_items)
          => LET pre_buy == IF Lt(quoted.spot_price, MIN_PRICE) THEN MIN_PRICE
                            ELSE quoted.spot_price
             IN  /\ ~quoted'.info.panic
                 /\ quoted'.info.error_code = "Ok"
                 /\ quoted'.info.new_spot_price = pre_buy
                 /\ quoted'.info.new_delta = quoted.delta
                 /\ quoted'.info.output_value = quoted.info.input_value
                 /\ pools'[1].spot_price = pre_buy
                 /\ pools'[1].delta = quoted.delta]_vars

\* The coin of n items on the linear curve before fees, the arithmetic
\* series n*(spot + delta) + n*(n-1)*delta/2.
LinearBuyBase(q) ==
    Add(Mul(N(q.num_items), Add(q.spot_price, q.delta)),
        Div(Mul(Mul(N(q.num_items), N(q.num_items - 1)), q.delta), N(2)))

\* C26: a linear buy quote for 0 items is InvalidNumItem; for n >= 1 items
\* whose new spot price spot + delta*n fits 128 bits it is Ok with that new
\* spot price, the same delta, protocol_fee = base*pfm/WAD and input_value =
\* base + base*fee/WAD + protocol_fee, base the arithmetic series and the
\* divisions truncating.
C26_LinearBuyQuote ==
    (quoted.kind = "buy" /\ quoted.curve = "LinearCurve")
       => IF quoted.num_items = 0
          THEN ~quoted.info.panic /\ quoted.info.error_code = "InvalidNumItem"
          ELSE LET new_spot == Add(quoted.spot_price,
                                   Mul(quoted.delta, N(quoted.num_items)))
                   base     == LinearBuyBase(quoted)
                   pfee     == Div(Mul(base, quoted.protocol_fee_multiplier), WAD)
               IN  ~Over128(new_spot)
                      => /\ ~quoted.info.panic
                         /\ quoted.info.error_code = "Ok"
                         /\ quoted.info.new_spot_price = new_spot
                         /\ quoted.info.new_delta = quoted.delta
                         /\ quoted.info.protocol_fee = pfee
                         /\ quoted.info.input_value
                               = Add(Add(base, Div(Mul(base, quoted.fee_multiplier),
                                                   WAD)),
                                     pfee)

\* A buy quote for 3 items at spot price 10, delta 2 and both fees a tenth:
\* base 42, trade fee 4, protocol fee 4, input 50, new spot price 16.
C26_Witness ==
    /\ quoted.kind = "buy"
    /\ quoted.curve = "LinearCurve"
    /\ quoted.num_items = 3
    /\ quoted.spot_price = LinearSpot /\ quoted.delta = LinearDelta
    /\ quoted.fee_multiplier = TenthWAD
    /\ quoted.protocol_fee_multiplier = TenthWAD
    /\ quoted.info.error_code = "Ok"
    /\ quoted.info.new_spot_price = <<16>>
    /\ quoted.info.protocol_fee = <<4>>
    /\ quoted.info.input_value = <<50>>

\* C27: a linear buy quote for n >= 1 items whose new spot price
\* spot + delta*n exceeds u128::MAX returns, without aborting, the status
\* SpotPriceOverflow, and the pool keeps its spot price and delta.
C27_LinearOverflowIsAStatus ==
    (/\ quoted.kind = "buy"
     /\ quoted.curve = "LinearCurve"
     /\ quoted.num_items >= 1
     /\ Over128(Add(quoted.spot_price, Mul(quoted.delta, N(quoted.num_items)))))
       => /\ ~quoted.info.panic
          /\ quoted.info.error_code = "SpotPriceOverflow"
          /\ pools[1].spot_price = quoted.spot_price
          /\ pools[1].delta = quoted.delta

\* C28: a linear sell quote for n >= 1 items is Ok and keeps delta.  When
\* spot < delta*n the new spot price is 0 and m = spot/delta + 1 items are
\* priced, otherwise the new spot price is spot - delta*n and m = n items
\* are; the output before fees, m*spot - m*(m-1)*delta/2, is not negative,
\* and output_value is that less the trade fee and the protocol fee on it.
C28_LinearSellQuote ==
    (quoted.kind = "sell" /\ quoted.curve = "LinearCurve" /\ quoted.num_items >= 1)
       => LET decrease == Mul(quoted.delta, N(quoted.num_items))
              clamped  == Lt(quoted.spot_price, decrease)
              m        == IF clamped
                          THEN Add(Div(quoted.spot_price, quoted.delta), N(1))
                          ELSE N(quoted.num_items)
              gross    == Mul(m, quoted.spot_price)
              series   == Div(Mul(Mul(m, Sub(m, N(1))), quoted.delta), N(2))
              base     == Sub(gross, series)
              pfee     == Div(Mul(base, quoted.protocol_fee_multiplier), WAD)
          IN  /\ ~quoted.info.panic
              /\ quoted.info.error_code = "Ok"
              /\ quoted.info.new_delta = quoted.delta
              /\ quoted.info.new_spot_price
                    = (IF clamped THEN <<>> ELSE Sub(quoted.spot_price, decrease))
              /\ Le(series, gross)
              /\ quoted.info.protocol_fee = pfee
              /\ quoted.info.output_value
                    = Sub(Sub(base, Div(Mul(base, quoted.fee_multiplier), WAD)), pfee)

\* A sell quote for 3 items at spot price 3 and delta 2 without fees: the
\* price would fall by 6, so 3/2 + 1 = 2 items are priced, 3 + 1 = 4 coin,
\* and the new spot price is 0.
C28_Witness ==
    /\ quoted.kind = "sell"
    /\ quoted.curve = "LinearCurve"
    /\ quoted.num_items = 3
    /\ quoted.spot_price = <<3>> /\ quoted.delta = LinearDelta
    /\ quoted.fee_multiplier = <<>> /\ quoted.protocol_fee_multiplier = <<>>
    /\ quoted.info.error_code = "Ok"
    /\ quoted.info.new_spot_price = <<>>
    /\ quoted.info.output_value = <<4>>

\* The spot price after n single steps of the exponential curve: multiplied
\* by delta and divided by WAD, n times. A price that no longer fits 128
\* bits is left as it is, as no later step brings it back (delta > WAD). The
\* n steps are taken as two halves.
RECURSIVE ExponentialSteps(_, _, _)
ExponentialSteps(spot_price, delta, n) ==
    IF n = 0 \/ Over128(spot_price) THEN spot_price
    ELSE IF n = 1 THEN Div(Mul(spot_price, delta), WAD)
    ELSE ExponentialSteps(ExponentialSteps(spot_price, delta, n \div 2),
                          delta, n - (n \div 2))

\* C29: an exponential buy quote for n >= 1 items uses the n-th power of
\* delta: when the spot price after n single steps fits 128 bits the quote
\* is Ok, its new spot price is that price, and its input value is
\* base + base*fee/WAD + base*pfm/WAD for
\* base = (spot*d/WAD) * ((d^n - WAD)*WAD/(d - WAD)) / WAD, d^n = fpow(d, n).
C29_ExponentialBuyUsesPower ==
    (quoted.kind = "buy" /\ quoted.curve = "ExponentialCurve" /\ quoted.num_items >= 1)
       => LET new_spot == ExponentialSteps(quoted.spot_price, quoted.delta,
                                           quoted.num_items)
              power    == fpow(quoted.delta, quoted.num_items, WAD)
              base     == Div(Mul(Div(Mul(quoted.spot_price, quoted.delta), WAD),
                                  Div(Mul(Sub(power, WAD), WAD),
                                      Sub(quoted.delta, WAD))),
                              WAD)
          IN  ~Over128(new_spot)
                 => /\ ~quoted.info.panic
                    /\ quoted.info.error_code = "Ok"
                    /\ quoted.info.new_spot_price = new_spot
                    /\ quoted.info.input_value
                          = Add(Add(base, Div(Mul(base, quoted.fee_multiplier), WAD)),
                                Div(Mul(base, quoted.protocol_fee_multiplier), WAD))

\* C30: the protocol fee of an Ok buy quote of either curve is a part of the
\* input value, not all of it: it is less than a positive input value, and
\* being base*pfm/WAD for a base that is at most the input value it is at
\* most input_value*pfm/WAD.
C30_BuyFeeIsItsOwnQuantity ==
    (quoted.kind = "buy" /\ ~quoted.info.panic /\ quoted.info.error_code = "Ok")
       => /\ quoted.info.input_value # <<>>
                => Lt(quoted.info.protocol_fee, quoted.info.input_value)
          /\ Le(Mul(quoted.info.protocol_fee, WAD),
                Mul(quoted.info.input_value, quoted.protocol_fee_multiplier))

\* C31: an exponential buy quote for n >= 1 items whose new spot price, the
\* spot price after n single steps, does not fit 128 bits returns the status
\* SpotPriceOverflow (it neither aborts nor returns a price) and leaves the
\* pool's spot price and delta as they were; so it is for spot 10^24,
\* delta 2*WAD and n = 200.
C31_ExponentialOverflowIsAStatus ==
    (/\ quoted.kind = "buy" /\ quoted.curve = "ExponentialCurve"
     /\ quoted.num_items >= 1
     /\ Over128(ExponentialSteps(quoted.spot_price, quoted.delta, quoted.num_items)))
       => /\ ~quoted.info.panic
          /\ quoted.info.error_code = "SpotPriceOverflow"
          /\ pools[1].spot_price = quoted.spot_price
          /\ pools[1].delta = quoted.delta

\* C32: a deposit_and_mint_lp that goes through mints the pool's coin
\* balance after the deposit when lp_supply was 0 or the inventory is empty
\* after the insertion, and otherwise lp_supply * |new token ids| / |token
\* ids held after the insertion|, truncated, the new token ids being the
\* token_ids of the call, held already or not; the minted amount is added
\* to the receiver's balance and to lp_supply, and when it is 0 no balance
\* changes.
C32_MintIsProRata ==
    [][\A token_ids \in InventoryLists \cup {<<>>} :
          (calls' # calls /\ PairDeposit(token_ids, AmpleNear))
          => LET before == pools[1]
                 after  == pools'[1]
                 new    == Len(token_ids)
                 minted == IF before.lp_supply = <<>> \/ after.token_ids_in_pools = <<>>
                           THEN after.near_balance
                           ELSE Div(Mul(before.lp_supply, N(new)),
                                    N(Len(after.token_ids_in_pools)))
             IN  /\ after.lp_supply = Add(before.lp_supply, minted)
                 /\ after.lp_balances[last'.caller]
                       = Add(before.lp_balances[last'.caller], minted)
                 /\ minted = <<>> => after.lp_balances = before.lp_balances]_vars

\* The second deposit of a run added two token ids to a pool holding one
\* and 100 shares: it minted 66 = 100 * 2 / 3 shares, truncated.
C32_Witness ==
    /\ calls = 2
    /\ last.op = "deposit_and_mint_lp"
    /\ Len(pools[1].token_ids_in_pools) = 3
    /\ pools[1].lp_supply = <<166>>
    /\ pools[1].lp_balances["alice"] = <<166>>
    /\ pools[1].near_balance = <<200>>

\* C33: burn_lp with lp greater than the account's balance (none for an
\* unregistered account) aborts, and an aborted call changes nothing: every
\* remove_liquidity that went through burned at most the balance its caller
\* had in the pool and took exactly that much from it, so no call with a
\* greater lp changed lp_balances, lp_supply, the coin balance or the
\* inventory.
C33_BurnWithinBalance ==
    [][(\E pool_id \in PoolIds :
           /\ HasPool(pool_id)
           /\ last'.op = "remove_liquidity" /\ calls' # calls
           /\ last'.pool_id = pool_id)
          => LET before == PoolAt(last'.pool_id)
                 after  == pools'[last'.pool_id + 1]
                 burned == Sub(before.lp_supply, after.lp_supply)
                 had    == IF last'.caller \in DOMAIN before.lp_balances
                           THEN before.lp_balances[last'.caller] ELSE <<>>
                 has    == IF last'.caller \in DOMAIN after.lp_balances
                           THEN after.lp_balances[last'.caller] ELSE <<>>
             IN  /\ Le(after.lp_supply, before.lp_supply)
                 /\ Le(burned, had)
                 /\ has = Sub(had, burned)]_vars

\* bob, registered and given 20 of alice's 40 shares, burned all 20 of them
\* and no more.
C33_Witness ==
    /\ last.op = "remove_liquidity" /\ last.ok /\ last.caller = "bob"
    /\ HasPool(0)
    /\ PoolAt(0).lp_balances = [alice |-> <<20>>, bob |-> <<>>]
    /\ PoolAt(0).lp_supply = <<20>>

\* What burn_lp is to redeem for lp shares of a pool holding H token ids
\* with S shares in all: raw = H*spot*lp/S in coin, H*lp/S token ids rounded
\* up, value = the token ids but one at the spot price and one at the spot
\* price after a buy of one, and raw less the excess of value over raw in
\* coin when the token ids were rounded up.
Redemption(self, lp, pfm) ==
    LET H     == N(Len(self.token_ids_in_pools))
        raw   == Div(Mul(Mul(H, self.spot_price), lp), self.lp_supply)
        floor == Div(Mul(H, lp), self.lp_supply)
        exact == Mul(floor, self.lp_supply) = Mul(H, lp)
        value == Add(Mul(floor, self.spot_price),
                     get_buy_info(self.curve, self.spot_price, self.delta, 1,
                                  self.fee, pfm).new_spot_price)
    IN  [raw |-> raw, exact |-> exact, value |-> value,
         nfts |-> IF exact THEN floor ELSE Add(floor, N(1)),
         coin |-> IF exact THEN raw
                  ELSE IF Lt(value, raw) \/ Lt(raw, Sub(value, raw)) THEN Panic
                  ELSE Sub(raw, Sub(value, raw))]

\* The price of the next item after a buy of one, as the curves define it:
\* spot_price + delta on a linear pool, spot_price * delta / WAD on an
\* exponential one.
NewSpotAfterBuyOfOne(self) ==
    IF self.curve = "LinearCurve" THEN Add(self.spot_price, self.delta)
    ELSE Div(Mul(self.spot_price, self.delta), WAD)

\* What a burn of lp shares is to redeem: raw = H * spot_price * lp / S,
\* ceil(H * lp / S) token ids, and, when H * lp is no multiple of S,
\* raw - (value - raw) coin with value = floor * spot_price + the price after
\* a buy of one (Panic when value - raw > raw).
RoundedUp(self, lp) ==
    LET H     == N(Len(self.token_ids_in_pools))
        raw   == Div(Mul(Mul(H, self.spot_price), lp), self.lp_supply)
        floor == Div(Mul(H, lp), self.lp_supply)
        exact == Mul(floor, self.lp_supply) = Mul(H, lp)
        value == Add(Mul(floor, self.spot_price), NewSpotAfterBuyOfOne(self))
    IN  [raw |-> raw, exact |-> exact, value |-> value,
         nfts |-> IF exact THEN floor ELSE Add(floor, N(1)),
         coin |-> IF exact THEN raw
                  ELSE IF Lt(value, raw) \/ Lt(raw, Sub(value, raw)) THEN Panic
                  ELSE Sub(raw, Sub(value, raw))]

\* C34: burn_lp redeems token ids rounded up and charges the rounding in
\* coin, on a pool of either curve. A burn that went through removed
\* ceil(H*lp/S) token ids and paid raw when H*lp is a multiple of S, and
\* raw - (value - raw) otherwise, with raw <= value and value - raw <= raw;
\* and in every state a burn of at most the holder's shares has
\* raw <= value and aborts only when value - raw > raw or the pool's coin
\* balance is less than the coin to pay.
C34_BurnRoundsUp ==
    /\ [][(calls' # calls /\ last'.op = "burn_lp"
           /\ pools'[1].lp_supply # pools[1].lp_supply)
            => LET before == pools[1]
                   after  == pools'[1]
                   due    == RoundedUp(before, Sub(before.lp_supply, after.lp_supply))
               IN  /\ N(Len(before.token_ids_in_pools) - Len(after.token_ids_in_pools))
                         = due.nfts
                   /\ ~due.exact => Le(due.raw, due.value)
                                    /\ Le(Sub(due.value, due.raw), due.raw)
                   /\ ~IsPanic(due.coin)
                   /\ Sub(before.near_balance, after.near_balance) = due.coin
                   /\ last'.transfer = due.coin]_vars
    /\ [](\A lp \in InventoryLp :
            (pools[1].lp_supply # <<>> /\ Le(lp, pools[1].lp_balances["alice"]))
               => LET due == RoundedUp(pools[1], lp)
                  IN  /\ ~due.exact => Le(due.raw, due.value)
                      /\ burn_lp(pools[1], "alice", lp, protocol_fee_multiplier).panic
                            => \/ IsPanic(due.coin)
                               \/ Lt(pools[1].near_balance, due.coin))

\* C35: a transfer of shares aborts, with no balance changed, when the
\* sender or the receiver is not registered in the pool, when the amount
\* exceeds the sender's balance, or when the sender is the receiver;
\* otherwise it debits the sender and credits the receiver by exactly the
\* amount and leaves lp_supply, and the rest of the pool, as they were. So
\* every lp_transfer and lp_transfer_call that went through moved some
\* amount within the sender's balance to one other registered account, and
\* the receipt an lp_transfer_call dispatched names that account and amount.
C35_TransferIsChecked ==
    [][(calls' # calls /\ last'.op \in {"lp_transfer", "lp_transfer_call"})
          => LET before == PoolAt(last'.pool_id)
                 after  == pools'[last'.pool_id + 1]
                 A      == last'.caller
                 Moved(B, amount) ==
                     /\ B # A
                     /\ B \in DOMAIN before.lp_balances
                     /\ Le(amount, before.lp_balances[A])
                     /\ after = [before EXCEPT
                                   !.lp_balances =
                                       [before.lp_balances EXCEPT
                                          ![A] = Sub(@, amount),
                                          ![B] = Add(@, amount)]]
             IN  /\ A \in DOMAIN before.lp_balances
                 /\ after.lp_supply = before.lp_supply
                 /\ \A pool_id \in PoolIds \ {last'.pool_id} :
                       HasPool(pool_id) => pools'[pool_id + 1] = PoolAt(pool_id)
                 /\ IF last'.op = "lp_transfer_call"
                    THEN \E r \in LpReceipts :
                            /\ Count(promises', r) = Count(promises, r) + 1
                            /\ r.pool_id = last'.pool_id /\ r.sender_id = A
                            /\ Moved(r.receiver_id, r.amount)
                    ELSE /\ Le(after.lp_balances[A], before.lp_balances[A])
                         /\ \E B \in Accounts :
                               Moved(B, Sub(before.lp_balances[A],
                                            after.lp_balances[A]))]_vars

\* alice has sent bob 20 of her 40 shares with lp_transfer.
C35_Witness ==
    /\ last.op = "lp_transfer" /\ last.ok /\ last.caller = "alice"
    /\ HasPool(0)
    /\ PoolAt(0).lp_balances = [alice |-> <<20>>, bob |-> <<20>>]
    /\ PoolAt(0).lp_supply = <<40>>

\* C36: redemption never overdraws a pool. In every state, for every Trade
\* pool and every holder of its shares, the coin that burn_lp is to redeem
\* for the holder's shares is at most the pool's coin balance, so the burn
\* is not stopped by the subtraction from the coin balance.
C36_RedemptionIsCovered ==
    \A pool_id \in PoolIds :
       (HasPool(pool_id) /\ PoolAt(pool_id).pool_type = "Trade")
          => \A holder \in DOMAIN PoolAt(pool_id).lp_balances :
                LET lp  == PoolAt(pool_id).lp_balances[holder]
                    due == Redemption(PoolAt(pool_id), lp, protocol_fee_multiplier)
                IN  (lp # <<>> /\ ~IsPanic(due.coin))
                       => Le(due.coin, PoolAt(pool_id).near_balance)

\* The coin the contract accounts for: the coin balances of its pools, the
\* protocol fee credit and the coin balances of the staging areas.
Accounted(pool_list, credit, deposits) ==
    Add(Add(SumOver([i \in DOMAIN pool_list |-> pool_list[i].near_balance],
                    DOMAIN pool_list),
            credit),
        SumOver([a \in DOMAIN deposits |-> deposits[a].near_balance],
                DOMAIN deposits))

\* C37: the contract is solvent: the coin it received less the coin it
\* transferred out covers the pools' coin balances, the protocol fee credit
\* and the staging coin balances, because no operation pays out or credits
\* coin that was not taken from an accounted balance. Stated for one call:
\* a remove_liquidity or withdraw_near that went through, to which at most
\* one yocto was attached, leaves the accounted coin plus the coin it
\* transferred to its caller at most one yocto above the accounted coin
\* before it.
C37_CallsConserveCoin ==
    [][(calls' # calls /\ last'.op \in {"remove_liquidity", "withdraw_near"})
          => Le(Add(Accounted(pools', protocol_fee_credit', account_deposits'),
                    last'.transfer),
                Add(Accounted(pools, protocol_fee_credit, account_deposits),
                    OneYocto))]_vars

\* C38: a round trip on a linear Trade pool gives no free coin, whatever
\* the fee and the protocol fee multiplier: when a sell of n items has moved
\* the pool and the next quote is a buy of n items, the buy takes in at
\* least the coin the sell put out, also when the sell was clamped because
\* spot_price < delta*n; and when a buy of n items has moved the pool and
\* the next quote is a sell of n items, the sell puts out at most the coin
\* the buy took in.
C38_NoFreeCoin ==
    [][(/\ calls' # calls
        /\ quoted.curve = "LinearCurve" /\ pools[1].pool_type = "Trade"
        /\ quoted.kind \in {"buy", "sell"} /\ quoted'.kind \in {"buy", "sell"}
        /\ quoted'.kind # quoted.kind
        /\ quoted'.num_items = quoted.num_items
        /\ ~quoted.info.panic /\ quoted.info.error_code = "Ok"
        /\ ~quoted'.info.panic /\ quoted'.info.error_code = "Ok"
        /\ pools[1].spot_price = quoted.info.new_spot_price
        /\ pools[1].delta = quoted.info.new_delta)
          => IF quoted.kind = "sell"
             THEN Le(quoted.info.output_value, quoted'.info.input_value)
             ELSE Le(quoted'.info.output_value, quoted.info.input_value)]_vars

\* The second quote of a run is a buy of 3 items from spot price 0 with
\* delta 2 and the trade fee: only a clamped sell leaves such a pool (it
\* stood at 3, and a sell of 2 or of 3 items took it to 0 and put out 4),
\* and the buy asks 13.
C38_Witness ==
    /\ calls = 2
    /\ quoted.kind = "buy" /\ quoted.curve = "LinearCurve"
    /\ quoted.num_items = 3
    /\ quoted.spot_price = <<>> /\ quoted.delta = LinearDelta
    /\ quoted.fee_multiplier = TenthWAD
    /\ quoted.info.error_code = "Ok" /\ ~quoted.info.panic
    /\ quoted.info.input_value = <<13>>
    /\ pools[1].spot_price = <<6>>

\* C39: exponential buys are available: for an exponential pool (delta >
\* WAD, spot_price >= MIN_PRICE) and n >= 1 items whose new spot price fits
\* 128 bits, the buy quote does not abort: it is Ok and its input value is
\* positive.
C39_ExponentialBuyIsAvailable ==
    (/\ quoted.kind = "buy" /\ quoted.curve = "ExponentialCurve"
     /\ quoted.num_items >= 1
     /\ Lt(WAD, quoted.delta) /\ Le(MIN_PRICE, quoted.spot_price)
     /\ ~Over128(ExponentialSteps(quoted.spot_price, quoted.delta, quoted.num_items)))
       => /\ ~quoted.info.panic
          /\ quoted.info.error_code = "Ok"
          /\ quoted.info.input_value # <<>>

(***************************************************************************)
(* fpow on its own.  SpecFpow starts from the arguments of one call of     *)
(* fpow, kept in quoted, and the call adds the value it returns; a call    *)
(* that aborts (a product beyond 256 bits) changes nothing.                *)
(***************************************************************************)
MaxPower == 8

FpowXs == {<<>>, N(1), N(3), N(4), Div(WAD, N(2)), Add(WAD, WAD), Mul(WAD, WAD)}

FpowBases == {N(2), N(10), WAD}

FpowCall(x, n, base_unit, z) ==
    [kind |-> "fpow", x |-> x, n |-> n, base_unit |-> base_unit, z |-> z]

InitFpow ==
    /\ quoted \in {FpowCall(x, n, base_unit, NONE) :
                     x \in FpowXs, n \in 0 .. MaxPower, base_unit \in FpowBases}
    /\ pools = <<>>
    /\ protocol_fee_credit = <<>>
    /\ protocol_fee_multiplier \in {Contract_new(given) : given \in {None}}
    /\ account_deposits = <<>>
    /\ block_timestamp_ms = 0
    /\ nft_owner = [t \in Tokens |-> "alice"]
    /\ promises = <<>>
    /\ last = Call("new", TRUE, NONE, 0, <<>>, {})
    /\ calls = 0
    /\ hops = <<>>
    /\ inserted = <<>>

Fpow ==
    /\ calls = 0
    /\ UNCHANGED block_timestamp_ms
    /\ \E z \in {fpow(quoted.x, quoted.n, quoted.base_unit)} :
          IF IsPanic(z) THEN Abort
          ELSE /\ quoted' = [quoted EXCEPT !.z = z]
               /\ calls' = calls + 1
               /\ last' = Call("fpow", TRUE, NONE, 0, <<>>, {})
               /\ UNCHANGED <<pools, protocol_fee_credit, protocol_fee_multiplier,
                              account_deposits, nft_owner, promises, hops,
                              inserted>>

NextFpow == Fpow

SpecFpow == InitFpow /\ [][NextFpow]_vars

\* n repetitions of z <- z*x/base with truncating division.
RECURSIVE Repeated(_, _, _, _)
Repeated(z, x, base, n) ==
    IF n = 0 THEN z ELSE Repeated(Div(Mul(z, x), base), x, base, n - 1)

\* C40: fpow(x, n, base) returns base when x = 0 and n = 0, 0 when x = 0
\* and n > 0, and otherwise what n repetitions of z <- z*x/base from
\* z = base give, the division truncating; fpow(4, 8, 2) = 512.
C40_FpowRepeats ==
    (quoted.kind = "fpow" /\ calls = 1)
       => /\ quoted.z = IF quoted.x = <<>>
                        THEN (IF quoted.n = 0 THEN quoted.base_unit ELSE <<>>)
                        ELSE Repeated(quoted.base_unit, quoted.x, quoted.base_unit,
                                      quoted.n)
          /\ (quoted.x = N(4) /\ quoted.n = 8 /\ quoted.base_unit = N(2))
                => quoted.z = N(512)

\* fpow(4, 8, 2) has returned 512.
C40_Witness ==
    /\ calls = 1
    /\ quoted = FpowCall(N(4), 8, N(2), N(512))

====
